---- MODULE Spec2Model ----
(***************************************************************************)
(* The redaction round engine of src/src/game/GameScene.ts, driven through *)
(* SceneManager, MenuScene and the wiring of main (src/unnamed/part_005).  *)
(*                                                                         *)
(* Numbers.  The source computes in floating point; the model computes in  *)
(* exact fixed point:                                                      *)
(*   - time in ticks of 1/TicksPerSecond second;                           *)
(*   - screen coordinates in whole CSS pixels;                             *)
(*   - normalized document coordinates in units of 1/NormDen;              *)
(*   - target rects in units of 1/RectDen;                                 *)
(*   - raster geometry in units of 1/SubPx pixel.                          *)
(* The window sizes, image sizes and pointer points below are chosen so    *)
(* that every division of the source is exact in these units.             *)
(***************************************************************************)
EXTENDS Integers, Sequences, FiniteSets, TLC

(* ------------------------------ bounds -------------------------------- *)
NumMasks == 2          \* length of the mask catalog handed to the constructor
MaxStrokes == 2        \* stroke points recorded in one round
MaxRounds == 2         \* rounds finished between two resets
TicksPerSecond == 2    \* time resolution of the model
MaxCallDepth == 3      \* nested calls the engine's stack holds before RangeError
MaxResizes == 1        \* window resizes in one run

(* ------------------------- program constants -------------------------- *)
TimeLimit == 30        \* private timeLimit = 30 (seconds)
Step == 4              \* const step = 4

NormDen == 5 * 100     \* denominator of normalized coordinates
RectDen == 10 * 10     \* denominator of target-rect coordinates
SubPx == 4 * 5         \* raster sub-pixel units per pixel

NoOne == [none |-> TRUE]   \* undefined / null

Min(a, b) == IF a < b THEN a ELSE b
Max(a, b) == IF a > b THEN a ELSE b

\* Math.ceil of the rational n/d, d > 0
CeilDiv(n, d) == -((-n) \div d)

\* Math.round of the rational n/d, d > 0: floor(n/d + 1/2)
RoundDiv(n, d) == (2 * n + d) \div (2 * d)

RECURSIVE SumSeq(_)
SumSeq(q) == IF q = <<>> THEN 0 ELSE Head(q) + SumSeq(Tail(q))

(* ------------------------------ inputs -------------------------------- *)
\* window.innerWidth x window.innerHeight, as main's resize() reads them
Sizes == { <<600, 500>>, <<700, 500>> }

\* element-relative pointer positions delivered by Input.getPoint
Points == { [x |-> 290, y |-> 175], [x |-> 290, y |-> 260],
            [x |-> 290, y |-> 300], [x |-> 570, y |-> 30] }

\* frame times dt handed to update, in ticks
Dts == { 41 }

\* The catalog ./data/masks (data, not part of src/): mask m's image size
\* and target rects.
\* Entries 1..NumMasks are the catalog the game is constructed with; the
\* entries of ScoreMasks are further masks, used to exercise calculateScore.
ScoreMasks == 101..107

MaskImage(m) ==
  CASE m \in {101, 102, 104, 106} -> [width |-> 100, height |-> 100]
    [] m \in {103, 105} -> [width |-> 50, height |-> 50]
    [] m = 107 -> [width |-> 20, height |-> 20]
    [] m \notin ScoreMasks /\ m % 2 = 1 -> [width |-> 50, height |-> 50]
    [] OTHER -> [width |-> 25, height |-> 25]

TargetRects(m) ==
  CASE m = 101 -> << [x |-> 10, y |-> 10, width |-> 20, height |-> 20] >>
    [] m = 102 -> << [x |-> 40, y |-> 30, width |-> 20, height |-> 20] >>
    [] m = 103 -> << [x |-> 5, y |-> 5, width |-> 0, height |-> 0],
                     [x |-> 50, y |-> 50, width |-> 25, height |-> 25] >>
    [] m = 104 -> << [x |-> 25, y |-> 25, width |-> 25, height |-> 50],
                     [x |-> 75, y |-> 0, width |-> 25, height |-> 25] >>
    [] m = 105 -> << [x |-> 0, y |-> 0, width |-> 50, height |-> 50],
                     [x |-> 25, y |-> 25, width |-> 50, height |-> 50] >>
    [] m = 106 -> << [x |-> 50, y |-> 50, width |-> 0, height |-> 25] >>
    [] m = 107 -> << [x |-> 5, y |-> 5, width |-> 35, height |-> 35] >>
    [] m \notin ScoreMasks /\ m % 2 = 1 ->
         << [x |-> 40, y |-> 30, width |-> 20, height |-> 20] >>
    [] OTHER -> << [x |-> 40, y |-> 30, width |-> 20, height |-> 20],
                   [x |-> 80, y |-> 80, width |-> 0, height |-> 0] >>

MaskIds == 1..NumMasks

\* the orders [...masks].sort(() => Math.random() - 0.5) can produce
Orders == { q \in [1..NumMasks -> MaskIds] :
              \A i, j \in 1..NumMasks : i # j => q[i] # q[j] }

(* --------------------------- GameScene: pure -------------------------- *)
pointInRect(p, r) ==
  IF p = NoOne THEN FALSE
  ELSE IF r = NoOne THEN FALSE
  ELSE p.x >= r.x /\ p.x <= r.x + r.width /\ p.y >= r.y /\ p.y <= r.y + r.height

\* drawButton returns the hit rectangle of a 140 x 40 button centred at (cx, cy)
drawButton(text, cx, cy) ==
  [x |-> cx - 140 \div 2, y |-> cy - 40 \div 2, width |-> 140, height |-> 40,
   text |-> text]

\* computeLayout for a container rect of `size` and the image `img`:
\* scale = min(cw / iw, ch / ih); the model keeps drawWidth, drawHeight and
\* the offsets, which are whole pixels for the sizes used here.
computeLayout(size, img) ==
  LET cw == size[1]
      ch == size[2]
      byWidth == cw * img.height <= ch * img.width   \* cw/iw <= ch/ih
      drawWidth == IF byWidth THEN cw ELSE (img.width * ch) \div img.height
      drawHeight == IF byWidth THEN (img.height * cw) \div img.width ELSE ch
  IN [offsetX |-> (cw - drawWidth) \div 2, offsetY |-> (ch - drawHeight) \div 2,
      drawWidth |-> drawWidth, drawHeight |-> drawHeight]

\* screenToDocument with the range test left out
screenToDocumentUnchecked(layout, p) ==
  [x |-> ((p.x - layout.offsetX) * NormDen) \div layout.drawWidth,
   y |-> ((p.y - layout.offsetY) * NormDen) \div layout.drawHeight]

\* screenToDocument: null outside [0,1] x [0,1], else the normalized point
screenToDocument(layout, p) ==
  LET nx == p.x - layout.offsetX
      ny == p.y - layout.offsetY
  IN IF nx < 0 \/ nx > layout.drawWidth \/ ny < 0 \/ ny > layout.drawHeight
     THEN NoOne
     ELSE [x |-> (nx * NormDen) \div layout.drawWidth,
           y |-> (ny * NormDen) \div layout.drawHeight]

\* The cells ctx.arc + fill paint for the marker disc of p on a w x h canvas:
\* centre (p.x * w, p.y * h), radius markerRadiusNorm * w = 0.012 * w; a cell
\* is painted when the disc overlaps its unit square.
DiscCells(p, w, h) ==
  LET cx == (p.x * w * SubPx) \div NormDen
      cy == (p.y * h * SubPx) \div NormDen
      r == (12 * w * SubPx) \div 1000
      gap(c, i) == Max(0, Max(i * SubPx - c, c - (i + 1) * SubPx))
      lo(c) == (c - r) \div SubPx
      hi(c) == (c + r) \div SubPx
  IN { cell \in (lo(cx)..hi(cx)) \X (lo(cy)..hi(cy)) :
         /\ cell[1] >= 0 /\ cell[1] < w /\ cell[2] >= 0 /\ cell[2] < h
         /\ gap(cx, cell[1]) * gap(cx, cell[1]) + gap(cy, cell[2]) * gap(cy, cell[2])
              < r * r }

\* data[(y * w + x) * 4 + 3] === 0 on the image data of a w x h canvas: the
\* flat index of an x beyond the row runs into the next row, and an index
\* outside the array reads undefined, which is not 0.
AlphaIsZero(raster, w, h, x, y) ==
  LET i == y * w + x
  IN i >= 0 /\ i < w * h /\ << i % w, i \div w >> \notin raster

\* 0, step, 2 step, ... below n
Strided(from, to) == { v \in from..(to - 1) : (v - from) % Step = 0 }

\* Rounding of the double arithmetic on rect bounds.  A rect field is the
\* double nearest to a decimal a / RectDen.  For a, b multiples of 5 with
\* a + b <= RectDen and w in {20, 25, 50, 100}, the products whose exact value
\* is an integer and whose double differs from it are listed here:
\*   LoAbove:  (a / RectDen) * w            is above a * w / RectDen
\*   HiAbove:  (a / RectDen + b / RectDen) * w  is above (a + b) * w / RectDen
\*   HiBelow:  (a / RectDen + b / RectDen) * w  is below (a + b) * w / RectDen
\* (no product r.x * w is below its exact integer value in this range).
LoAbove == { <<55, 100>> }

HiAbove ==
  { <<5, 10, 20>>, <<5, 55, 20>>, <<5, 65, 20>>, <<10, 5, 20>>,
    <<10, 20, 20>>, <<15, 55, 20>>, <<20, 10, 20>>, <<20, 40, 20>>,
    <<40, 20, 20>>, <<55, 5, 20>>, <<55, 15, 20>>, <<65, 5, 20>>,
    <<5, 55, 25>>, <<20, 40, 25>>, <<40, 20, 25>>, <<55, 5, 25>>,
    <<5, 55, 50>>, <<10, 20, 50>>, <<20, 10, 50>>, <<20, 40, 50>>,
    <<40, 20, 50>>, <<55, 5, 50>>,
    <<0, 55, 100>>, <<5, 10, 100>>, <<5, 50, 100>>, <<5, 55, 100>>,
    <<5, 80, 100>>, <<10, 5, 100>>, <<10, 20, 100>>, <<10, 45, 100>>,
    <<15, 40, 100>>, <<20, 10, 100>>, <<20, 35, 100>>, <<20, 40, 100>>,
    <<20, 65, 100>>, <<25, 30, 100>>, <<30, 25, 100>>, <<30, 55, 100>>,
    <<35, 20, 100>>, <<40, 15, 100>>, <<40, 20, 100>>, <<40, 45, 100>>,
    <<45, 10, 100>>, <<45, 40, 100>>, <<50, 5, 100>>, <<55, 0, 100>>,
    <<55, 5, 100>>, <<55, 30, 100>>, <<65, 20, 100>>, <<80, 5, 100>> }

HiBelow ==
  { <<5, 35, 20>>, <<10, 70, 20>>, <<30, 35, 20>>, <<35, 5, 20>>,
    <<35, 30, 20>>, <<70, 10, 20>>,
    <<20, 70, 50>>, <<30, 60, 50>>, <<60, 30, 50>>, <<70, 20, 50>>,
    <<10, 35, 100>>, <<15, 30, 100>>, <<20, 70, 100>>, <<30, 15, 100>>,
    <<30, 35, 100>>, <<30, 60, 100>>, <<35, 10, 100>>, <<35, 30, 100>>,
    <<60, 30, 100>>, <<70, 20, 100>> }

\* sign of (double - exact) for r.x * w and for (r.x + r.width) * w
ErrLo(a, w) == IF <<a, w>> \in LoAbove THEN 1 ELSE 0

ErrHi(a, b, w) ==
  IF <<a, b, w>> \in HiAbove THEN 1 ELSE IF <<a, b, w>> \in HiBelow THEN 0 - 1 ELSE 0

\* Math.floor, Math.ceil and the comparisons of an integer x with a double
\* whose exact value is n / d and whose rounding error has sign err
FloorF(n, d, err) == IF n % d = 0 /\ err < 0 THEN n \div d - 1 ELSE n \div d

CeilF(n, d, err) == IF n % d = 0 /\ err > 0 THEN n \div d + 1 ELSE CeilDiv(n, d)

GeF(x, n, d, err) == x * d > n \/ (x * d = n /\ err <= 0)

LeF(x, n, d, err) == x * d < n \/ (x * d = n /\ err >= 0)

insideRect(r, x, y, w, h) ==
  /\ GeF(x, r.x * w, RectDen, ErrLo(r.x, w))
  /\ GeF(y, r.y * h, RectDen, ErrLo(r.y, h))
  /\ LeF(x, (r.x + r.width) * w, RectDen, ErrHi(r.x, r.width, w))
  /\ LeF(y, (r.y + r.height) * h, RectDen, ErrHi(r.y, r.height, h))

\* correctCount with the painted test inverted
correctCountUnpainted(raster, rects, w, h) ==
  Cardinality({ c \in Strided(0, w) \X Strided(0, h) :
                  /\ AlphaIsZero(raster, w, h, c[1], c[2])
                  /\ \E k \in 1..Len(rects) : insideRect(rects[k], c[1], c[2], w, h) })

\* The painted pass visits the samples (x, y), x and y multiples of step, and
\* skips those with alpha 0: the samples it counts are painted cells.
correctCount(raster, rects, w, h) ==
  Cardinality({ c \in (Strided(0, w) \X Strided(0, h)) \cap raster :
                  /\ ~AlphaIsZero(raster, w, h, c[1], c[2])
                  /\ \E k \in 1..Len(rects) : insideRect(rects[k], c[1], c[2], w, h) })

falsePositiveCount(raster, rects, w, h) ==
  Cardinality({ c \in (Strided(0, w) \X Strided(0, h)) \cap raster :
                  /\ ~AlphaIsZero(raster, w, h, c[1], c[2])
                  /\ ~\E k \in 1..Len(rects) : insideRect(rects[k], c[1], c[2], w, h) })

\* missedInRect with the samples of the painted pass (multiples of step)
\* in place of those that start at startX, startY
missedInRectAligned(raster, r, w, h) ==
  LET startX == FloorF(r.x * w, RectDen, ErrLo(r.x, w))
      endX == CeilF((r.x + r.width) * w, RectDen, ErrHi(r.x, r.width, w))
      startY == FloorF(r.y * h, RectDen, ErrLo(r.y, h))
      endY == CeilF((r.y + r.height) * h, RectDen, ErrHi(r.y, r.height, h))
  IN Cardinality({ c \in Strided(0, endX) \X Strided(0, endY) :
                     /\ c[1] >= startX /\ c[2] >= startY
                     /\ AlphaIsZero(raster, w, h, c[1], c[2]) })

missedInRect(raster, r, w, h) ==
  LET startX == FloorF(r.x * w, RectDen, ErrLo(r.x, w))
      endX == CeilF((r.x + r.width) * w, RectDen, ErrHi(r.x, r.width, w))
      startY == FloorF(r.y * h, RectDen, ErrLo(r.y, h))
      endY == CeilF((r.y + r.height) * h, RectDen, ErrHi(r.y, r.height, h))
  IN Cardinality({ c \in Strided(startX, endX) \X Strided(startY, endY) :
                     AlphaIsZero(raster, w, h, c[1], c[2]) })

RECURSIVE missedCount(_, _, _, _)
missedCount(raster, rects, w, h) ==
  IF rects = <<>> THEN 0
  ELSE missedInRect(raster, Head(rects), w, h) + missedCount(raster, Tail(rects), w, h)

\* calculateScore with Math.max(0, ...) left out
calculateScoreUnclamped(s) ==
  LET w == s.coverage.width
      h == s.coverage.height
      rects == TargetRects(s.mask)
      twice == correctCount(s.raster, rects, w, h) * 40
                 - falsePositiveCount(s.raster, rects, w, h) * 3
                 - missedCount(s.raster, rects, w, h)
  IN IF s.phase = "Scoring"
     THEN RoundDiv(twice * (2 * s.timeLimit + Max(0, s.timer)), 4 * s.timeLimit)
     ELSE RoundDiv(twice, 2)

\* calculateScore with a term that differs from call to call (the number
\* of calls made so far) added to the result
calculateScorePerCall(s) ==
  LET w == s.coverage.width
      h == s.coverage.height
      rects == TargetRects(s.mask)
      twice == correctCount(s.raster, rects, w, h) * 40
                 - falsePositiveCount(s.raster, rects, w, h) * 3
                 - missedCount(s.raster, rects, w, h)
  IN IF s.phase = "Scoring"
     THEN Max(0, RoundDiv(twice * (2 * s.timeLimit + Max(0, s.timer)), 4 * s.timeLimit))
            + s.finishCalls
     ELSE Max(0, RoundDiv(twice, 2)) + s.finishCalls

\* calculateScore with timeFactor = 1 in place of timer / timeLimit
calculateScoreFullBonus(s) ==
  LET w == s.coverage.width
      h == s.coverage.height
      rects == TargetRects(s.mask)
      twice == correctCount(s.raster, rects, w, h) * 40
                 - falsePositiveCount(s.raster, rects, w, h) * 3
                 - missedCount(s.raster, rects, w, h)
  IN IF s.phase = "Scoring"
     THEN Max(0, RoundDiv(twice * 3, 4))
     ELSE Max(0, RoundDiv(twice, 2))

\* calculateScore: (correct*20 - falsePositive*1.5 - missed*0.5), plus the
\* time bonus roundScore * (timer / timeLimit) * 0.5 when phase is Scoring,
\* rounded and clamped at 0.
calculateScore(s) ==
  LET w == s.coverage.width
      h == s.coverage.height
      rects == TargetRects(s.mask)
      correct == correctCount(s.raster, rects, w, h)
      falsePositive == falsePositiveCount(s.raster, rects, w, h)
      missed == missedCount(s.raster, rects, w, h)
      twice == correct * 40 - falsePositive * 3 - missed      \* 2 * roundScore
      timeFactorNum == Max(0, s.timer)                        \* over timeLimit
  IN IF s.phase = "Scoring"
     THEN Max(0, RoundDiv(twice * (2 * s.timeLimit + timeFactorNum), 4 * s.timeLimit))
     ELSE Max(0, RoundDiv(twice, 2))

(* --------------------------- GameScene: state ------------------------- *)
\* The fields of a GameScene after the field initializers have run and the
\* constructor has stored its arguments (before its loadNextMask call).
\* finishCalls, ticks, scoreLog, presented, shuffleCount, loaded, countdown
\* and layers are history fields: they record what the methods did and are
\* read by no method.
GameSceneFields(order) ==
  [ imageLoaded |-> FALSE,
    layout |-> NoOne,
    docImage |-> [width |-> 0, height |-> 0],
    pendingSrc |-> 0,                      \* mask whose image is loading, 0: none
    strokes |-> << >>,
    isDrawing |-> FALSE,
    coverage |-> [width |-> 300, height |-> 150],   \* a new canvas element
    raster |-> {},
    phase |-> "Prompt",
    timer |-> 0,
    timeLimit |-> TimeLimit * TicksPerSecond,
    roundScore |-> 0,
    totalScore |-> 0,
    needsRedraw |-> TRUE,
    masks |-> order,
    currentMaskIndex |-> 0,
    mask |-> 0,
    readyButton |-> NoOne,
    doneButton |-> NoOne,
    continueButton |-> NoOne,
    exitButton |-> NoOne,
    typeError |-> FALSE,                   \* a handler read the undefined layout
    finishCalls |-> 0,                     \* finishRound calls since the round began
    ticks |-> 0,                           \* update ticks in the round under way
    scoreLog |-> << >>,                    \* round scores since the last reset
    presented |-> << >>,                   \* masks loaded since index 0 was loaded
    shuffleCount |-> 1,                    \* shuffles of the mask order so far
    loaded |-> 0,                          \* mask whose image onload last measured
    countdown |-> 0 - 1,                   \* the "Time: n" the UI layer shows, -1: none
    layers |-> [document |-> FALSE, discs |-> FALSE, ui |-> {}] ]   \* what the three layers show

(* ------------------------- GameScene: methods ------------------------- *)
loadDocument(s, src) == [s EXCEPT !.pendingSrc = src]

\* docImage.onload
onload(s, size) ==
  LET img == MaskImage(s.pendingSrc)
  IN [s EXCEPT !.imageLoaded = TRUE,
               !.docImage = img,
               !.pendingSrc = 0,
               !.loaded = s.pendingSrc,
               !.coverage = [width |-> img.width, height |-> img.height],
               !.raster = {},              \* assigning canvas.width resets the bitmap
               !.layout = computeLayout(size, img),
               !.needsRedraw = TRUE]

\* startRedaction with the timer reset left out
startRedactionKeepTimer(s) ==
  [s EXCEPT !.phase = "Redacting",
            !.strokes = << >>,
            !.raster = {},
            !.needsRedraw = TRUE,
            !.finishCalls = 0,
            !.ticks = 0]

startRedaction(s) ==
  [s EXCEPT !.phase = "Redacting",
            !.timer = s.timeLimit,
            !.strokes = << >>,
            !.raster = {},
            !.needsRedraw = TRUE,
            !.finishCalls = 0,
            !.ticks = 0]

\* finishRound with totalScore = score in place of totalScore += score
finishRoundOverwrite(s) ==
  LET s1 == [s EXCEPT !.phase = "Scoring"]
      score == calculateScore(s1)
  IN [s1 EXCEPT !.roundScore = score,
                !.totalScore = score,
                !.needsRedraw = TRUE,
                !.finishCalls = @ + 1,
                !.ticks = 0,
                !.scoreLog = Append(@, score)]

finishRound(s) ==
  LET s1 == [s EXCEPT !.phase = "Scoring"]
      score == calculateScore(s1)
  IN [s1 EXCEPT !.roundScore = score,
                !.totalScore = @ + score,
                !.needsRedraw = TRUE,
                !.finishCalls = @ + 1,
                !.ticks = 0,
                !.scoreLog = Append(@, score)]

\* loadNextMask with this.strokes = [] left out
loadNextMaskKeepStrokes(s) ==
  LET i == IF s.currentMaskIndex >= Len(s.masks) THEN 0 ELSE s.currentMaskIndex
      m == s.masks[i + 1]
  IN [loadDocument(s, m) EXCEPT !.currentMaskIndex = i + 1,
                                !.mask = m,
                                !.phase = "Prompt",
                                !.raster = {},
                                !.needsRedraw = TRUE,
                                !.presented = IF i = 0 THEN << m >> ELSE Append(@, m)]

\* loadNextMask with the clearRect of the coverage canvas left out
loadNextMaskKeepRaster(s) ==
  LET i == IF s.currentMaskIndex >= Len(s.masks) THEN 0 ELSE s.currentMaskIndex
      m == s.masks[i + 1]
  IN [loadDocument(s, m) EXCEPT !.currentMaskIndex = i + 1,
                                !.mask = m,
                                !.phase = "Prompt",
                                !.strokes = << >>,
                                !.needsRedraw = TRUE,
                                !.presented = IF i = 0 THEN << m >> ELSE Append(@, m)]

\* loadNextMask reading masks[0] whatever the index
loadNextMaskFirst(s) ==
  LET i == IF s.currentMaskIndex >= Len(s.masks) THEN 0 ELSE s.currentMaskIndex
      m == s.masks[1]
  IN [loadDocument(s, m) EXCEPT !.currentMaskIndex = i + 1,
                                !.mask = m,
                                !.phase = "Prompt",
                                !.strokes = << >>,
                                !.raster = {},
                                !.needsRedraw = TRUE,
                                !.presented = IF i = 0 THEN << m >> ELSE Append(@, m)]

\* loadNextMask with the wrap test left out: past the end of the catalog the
\* lookup yields undefined (0) and the index keeps growing
loadNextMaskNoWrap(s) ==
  LET i == s.currentMaskIndex
      m == IF i < Len(s.masks) THEN s.masks[i + 1] ELSE 0
  IN [loadDocument(s, m) EXCEPT !.currentMaskIndex = i + 1,
                                !.mask = m,
                                !.phase = "Prompt",
                                !.strokes = << >>,
                                !.raster = {},
                                !.needsRedraw = TRUE,
                                !.presented = IF i = 0 THEN << m >> ELSE Append(@, m)]

loadNextMask(s) ==
  LET i == IF s.currentMaskIndex >= Len(s.masks) THEN 0 ELSE s.currentMaskIndex
      m == s.masks[i + 1]                  \* this.masks[this.currentMaskIndex++]
  IN [loadDocument(s, m) EXCEPT !.currentMaskIndex = i + 1,
                                !.mask = m,
                                !.phase = "Prompt",
                                !.strokes = << >>,
                                !.raster = {},
                                !.needsRedraw = TRUE,
                                !.presented = IF i = 0 THEN << m >> ELSE Append(@, m)]

resetGame(s) ==
  loadNextMask([s EXCEPT !.roundScore = 0,
                         !.totalScore = 0,
                         !.currentMaskIndex = 0,
                         !.strokes = << >>,
                         !.raster = {},
                         !.scoreLog = << >>])

\* drawCoveragePoint with the drawn size of the layout in place of the size
\* of the coverage canvas
drawCoveragePointScreen(s, p) ==
  [s EXCEPT !.raster = @ \cup DiscCells(p, s.layout.drawWidth, s.layout.drawHeight)]

drawCoveragePoint(s, p) ==
  [s EXCEPT !.raster = @ \cup DiscCells(p, s.coverage.width, s.coverage.height)]

startStroke(s, p) ==
  IF s.layout = NoOne THEN [s EXCEPT !.typeError = TRUE]
  ELSE LET docPoint == screenToDocument(s.layout, p)
       IN IF docPoint = NoOne THEN s
          ELSE [drawCoveragePoint(s, docPoint) EXCEPT !.isDrawing = TRUE,
                                                     !.strokes = Append(@, docPoint),
                                                     !.needsRedraw = TRUE]

addStroke(s, p) ==
  IF s.layout = NoOne THEN [s EXCEPT !.typeError = TRUE]
  ELSE LET docPoint == screenToDocument(s.layout, p)
       IN IF docPoint = NoOne THEN s
          ELSE [drawCoveragePoint(s, docPoint) EXCEPT !.strokes = Append(@, docPoint),
                                                     !.needsRedraw = TRUE]

\* update with the expiry branch clamping the timer and not ending the round
updateNoExpiry(s, dt) ==
  IF s.phase = "Redacting" /\ s.timer > 0
  THEN LET prev == CeilDiv(s.timer, TicksPerSecond)
           t == s.timer - dt
           s1 == [s EXCEPT !.ticks = @ + 1]
           s2 == IF t <= 0 THEN [s1 EXCEPT !.timer = 0] ELSE [s1 EXCEPT !.timer = t]
       IN IF CeilDiv(s2.timer, TicksPerSecond) # prev
          THEN [s2 EXCEPT !.needsRedraw = TRUE]
          ELSE s2
  ELSE s

\* update with the redraw request for a changed Math.ceil(timer) left out
updateNoRedraw(s, dt) ==
  IF s.phase = "Redacting"
  THEN LET t == s.timer - dt
           s1 == [s EXCEPT !.ticks = @ + 1]
       IN IF t <= 0 THEN finishRound([s1 EXCEPT !.timer = 0])
                    ELSE [s1 EXCEPT !.timer = t]
  ELSE s

\* update with the phase guard left out
updateUnguarded(s, dt) ==
  LET prev == CeilDiv(s.timer, TicksPerSecond)
      t == s.timer - dt
      s1 == [s EXCEPT !.ticks = @ + 1]
      s2 == IF t <= 0 THEN finishRound([s1 EXCEPT !.timer = 0])
                      ELSE [s1 EXCEPT !.timer = t]
  IN IF CeilDiv(s2.timer, TicksPerSecond) # prev
     THEN [s2 EXCEPT !.needsRedraw = TRUE]
     ELSE s2

\* update with the clamp this.timer = 0 left out
updateNoClamp(s, dt) ==
  IF s.phase = "Redacting"
  THEN LET prev == CeilDiv(s.timer, TicksPerSecond)
           t == s.timer - dt
           s1 == [s EXCEPT !.ticks = @ + 1, !.timer = t]
           s2 == IF t <= 0 THEN finishRound(s1) ELSE s1
       IN IF CeilDiv(s2.timer, TicksPerSecond) # prev
          THEN [s2 EXCEPT !.needsRedraw = TRUE]
          ELSE s2
  ELSE s

\* update with this.timer < 0 in place of this.timer <= 0
updateLate(s, dt) ==
  IF s.phase = "Redacting"
  THEN LET prev == CeilDiv(s.timer, TicksPerSecond)
           t == s.timer - dt
           s1 == [s EXCEPT !.ticks = @ + 1]
           s2 == IF t < 0 THEN finishRound([s1 EXCEPT !.timer = 0])
                          ELSE [s1 EXCEPT !.timer = t]
       IN IF CeilDiv(s2.timer, TicksPerSecond) # prev
          THEN [s2 EXCEPT !.needsRedraw = TRUE]
          ELSE s2
  ELSE s

update(s, dt) ==
  IF s.phase = "Redacting"
  THEN LET prev == CeilDiv(s.timer, TicksPerSecond)
           t == s.timer - dt
           s1 == [s EXCEPT !.ticks = @ + 1]
           s2 == IF t <= 0 THEN finishRound([s1 EXCEPT !.timer = 0])
                           ELSE [s1 EXCEPT !.timer = t]
       IN IF CeilDiv(s2.timer, TicksPerSecond) # prev
          THEN [s2 EXCEPT !.needsRedraw = TRUE]
          ELSE s2
  ELSE s

\* A layer after clear(): nothing drawn on any of the three.
ClearedLayers == [document |-> FALSE, discs |-> FALSE, ui |-> {}]

\* drawDocument: drawImage of the document on the document layer
drawDocument(s) == [s EXCEPT !.layers.document = TRUE]

\* drawRedactions: one filled disc per stroke point on the redaction layer
drawRedactions(s) == [s EXCEPT !.layers.discs = TRUE]

\* drawUI: the texts and the buttons of the current phase, the buttons
\* placed from the UI layer's size; in Redacting the countdown
\* `Time: ${Math.ceil(this.timer)}` is drawn, in the other phases the UI
\* layer, cleared by render, shows none.
drawUI(s, size) ==
  LET w == size[1]
      h == size[2]
  IN CASE s.phase = "Prompt" ->
            [s EXCEPT !.readyButton = drawButton("READY", w \div 2, (h * 35) \div 100),
                      !.layers.ui = {"prompt", "READY"},
                      !.countdown = 0 - 1]
       [] s.phase = "Redacting" ->
            [s EXCEPT !.doneButton = drawButton("DONE", w - 80, 30),
                      !.layers.ui = {"Time", "DONE"},
                      !.countdown = CeilDiv(s.timer, TicksPerSecond)]
       [] s.phase = "Scoring" ->
            [s EXCEPT !.continueButton = drawButton("CONTINUE", w \div 2, (h * 50) \div 100),
                      !.exitButton = drawButton("EXIT", w \div 2, (h * 57) \div 100),
                      !.layers.ui = {"Round Score", "Total Score", "CONTINUE", "EXIT"},
                      !.countdown = 0 - 1]

\* render with the imageLoaded guard left out
renderBeforeLoad(s, size) ==
  IF ~s.needsRedraw THEN s
  ELSE LET cleared == [s EXCEPT !.layers = ClearedLayers]
           drawn == IF s.phase = "Redacting" \/ s.phase = "Scoring"
                    THEN drawRedactions(drawDocument(cleared))
                    ELSE cleared
       IN [drawUI(drawn, size) EXCEPT !.needsRedraw = FALSE]

\* render with the document and the discs drawn in every phase
renderAllLayers(s, size) ==
  IF ~s.imageLoaded \/ ~s.needsRedraw THEN s
  ELSE LET cleared == [s EXCEPT !.layers = ClearedLayers]
       IN [drawUI(drawRedactions(drawDocument(cleared)), size) EXCEPT !.needsRedraw = FALSE]

render(s, size) ==
  IF ~s.imageLoaded \/ ~s.needsRedraw THEN s
  ELSE LET cleared == [s EXCEPT !.layers = ClearedLayers]
           drawn == IF s.phase = "Redacting" \/ s.phase = "Scoring"
                    THEN drawRedactions(drawDocument(cleared))
                    ELSE cleared
       IN [drawUI(drawn, size) EXCEPT !.needsRedraw = FALSE]

\* onResize resetting the coverage raster as well, as if the coverage canvas
\* took the new size with the layers
onResizeClearingRaster(s, size) ==
  IF ~s.imageLoaded THEN s
  ELSE [s EXCEPT !.layout = computeLayout(size, s.docImage),
                 !.raster = {},
                 !.needsRedraw = TRUE]

onResize(s, size) ==
  IF ~s.imageLoaded THEN s
  ELSE [s EXCEPT !.layout = computeLayout(size, s.docImage), !.needsRedraw = TRUE]

onPointerMove(s, p) ==
  IF ~s.isDrawing \/ s.phase # "Redacting" THEN s ELSE addStroke(s, p)

onPointerUp(s) == [s EXCEPT !.isDrawing = FALSE]

\* new GameScene(docLayer, redactionLayer, uiLayer, masks, onExit)
GameSceneNew(order) == loadNextMask(GameSceneFields(order))

(* ------------------- SceneManager, MenuScene, main --------------------- *)
\* A world is the GameScene, the SceneManager's current scene ("none",
\* "menu" or "game") and what the running handler has done so far:
\* onExitCalls counts the calls of the GameScene's onExit callback,
\* rejections the promises of set that were rejected, thrown is an
\* exception in flight.
World(s, cur) ==
  [scene |-> s, current |-> cur, onExitCalls |-> 0, rejections |-> 0, thrown |-> FALSE]

\* this.current?.onExit is truthy: a GameScene carries its onExit callback
\* in the property of that name; a MenuScene has none
hasOnExit(cur) == cur = "game"

\* SceneManager.set(scene), entered with `depth` calls of set on the stack.
\* Neither scene defines onEnter.  A call beyond MaxCallDepth throws
\* RangeError; an exception inside the async body rejects the promise set
\* returns, which no caller awaits.  The GameScene's onExit callback is
\* main's () => { game.sceneManager.set(menuScene) }.
RECURSIVE set(_, _, _)
set(w, scene, depth) ==
  IF depth >= MaxCallDepth
  THEN [w EXCEPT !.thrown = TRUE]
  ELSE LET w1 == IF hasOnExit(w.current)
                 THEN set([w EXCEPT !.onExitCalls = @ + 1], "menu", depth + 1)
                 ELSE w
       IN IF w1.thrown
          THEN [w1 EXCEPT !.thrown = FALSE, !.rejections = @ + 1]
          ELSE [w1 EXCEPT !.current = scene]

\* the onExit argument main passes to new GameScene
gameSceneOnExit(w) == set([w EXCEPT !.onExitCalls = @ + 1], "menu", 0)

\* the onStart argument main passes to new MenuScene
menuSceneOnStart(w) == set([w EXCEPT !.scene = resetGame(w.scene)], "game", 0)

\* exitGame with the clearRect of the redaction layer left out
exitGameKeepRaster(w) ==
  gameSceneOnExit([w EXCEPT !.scene = [w.scene EXCEPT !.roundScore = 0,
                                                      !.totalScore = 0,
                                                      !.strokes = << >>,
                                                      !.phase = "Prompt",
                                                      !.needsRedraw = TRUE,
                                                      !.countdown = 0 - 1,
                                                      !.layers = ClearedLayers,
                                                      !.scoreLog = << >>]])

exitGame(w) ==
  gameSceneOnExit([w EXCEPT !.scene = [w.scene EXCEPT !.roundScore = 0,
                                                      !.totalScore = 0,
                                                      !.strokes = << >>,
                                                      !.phase = "Prompt",
                                                      !.raster = {},
                                                      !.needsRedraw = TRUE,
                                                      !.countdown = 0 - 1,
                                                      !.layers = ClearedLayers,
                                                      !.scoreLog = << >>]])

\* onPointerDown with the done button honoured in every phase
onPointerDownAnyPhase(w, p) ==
  LET s == w.scene
  IN IF p = NoOne THEN w
     ELSE IF s.doneButton # NoOne /\ pointInRect(p, s.doneButton)
     THEN [w EXCEPT !.scene = finishRound(s)]
     ELSE CASE s.phase = "Prompt" ->
                 IF s.readyButton # NoOne /\ pointInRect(p, s.readyButton)
                 THEN [w EXCEPT !.scene = startRedaction(s)]
                 ELSE w
            [] s.phase = "Redacting" -> [w EXCEPT !.scene = startStroke(s, p)]
            [] s.phase = "Scoring" ->
                 IF s.continueButton # NoOne /\ pointInRect(p, s.continueButton)
                 THEN [w EXCEPT !.scene = loadNextMask(s)]
                 ELSE IF s.exitButton # NoOne /\ pointInRect(p, s.exitButton)
                 THEN exitGame(w)
                 ELSE w

\* GameScene.onPointerDown
onPointerDown(w, p) ==
  LET s == w.scene
  IN IF p = NoOne THEN w
     ELSE CASE s.phase = "Prompt" ->
                 IF s.readyButton # NoOne /\ pointInRect(p, s.readyButton)
                 THEN [w EXCEPT !.scene = startRedaction(s)]
                 ELSE w
            [] s.phase = "Redacting" ->
                 IF s.doneButton # NoOne /\ pointInRect(p, s.doneButton)
                 THEN [w EXCEPT !.scene = finishRound(s)]
                 ELSE [w EXCEPT !.scene = startStroke(s, p)]
            [] s.phase = "Scoring" ->
                 IF s.continueButton # NoOne /\ pointInRect(p, s.continueButton)
                 THEN [w EXCEPT !.scene = loadNextMask(s)]
                 ELSE IF s.exitButton # NoOne /\ pointInRect(p, s.exitButton)
                 THEN exitGame(w)
                 ELSE w

\* SceneManager.onPointerDown: this.current?.onPointerDown?.(p)
SceneManagerOnPointerDown(w, p) ==
  CASE w.current = "game" -> onPointerDown(w, p)
    [] w.current = "menu" -> menuSceneOnStart(w)
    [] OTHER -> w

(* ------------------------------- state -------------------------------- *)
VARIABLES scene,        \* the GameScene main constructs
          current,      \* SceneManager.current
          win,          \* the size main's resize() gave the three layers
          onExitCalls,  \* calls of the GameScene's onExit callback made by
                        \* the handler that ran last
          resizes       \* window resizes so far

vars == << scene, current, win, onExitCalls, resizes >>

\* main has run: the layers are sized, both scenes are constructed, the
\* menu scene is current and the frame loop is started.
Init ==
  /\ scene \in { GameSceneNew(order) : order \in Orders }
  /\ current = "menu"
  /\ win = <<600, 500>>
  /\ onExitCalls = 0
  /\ resizes = 0

\* Game.loop: sceneManager.update(dt); sceneManager.render()
Frame(dt) ==
  /\ scene' = IF current = "game" THEN render(update(scene, dt), win) ELSE scene
  /\ onExitCalls' = 0
  /\ UNCHANGED << current, win, resizes >>

\* pointerdown -> sceneManager.onPointerDown(p)
PointerDown(p) ==
  LET w == SceneManagerOnPointerDown(World(scene, current), p)
  IN /\ Len(w.scene.strokes) <= MaxStrokes
     /\ w.scene.phase = "Redacting" /\ scene.phase = "Prompt"
          => Len(scene.scoreLog) < MaxRounds
     /\ scene' = w.scene
     /\ current' = w.current
     /\ onExitCalls' = w.onExitCalls
     /\ UNCHANGED << win, resizes >>

\* pointermove -> sceneManager.onPointerMove(p)
PointerMove(p) ==
  LET s == IF current = "game" THEN onPointerMove(scene, p) ELSE scene
  IN /\ Len(s.strokes) <= MaxStrokes
     /\ scene' = s
     /\ onExitCalls' = 0
     /\ UNCHANGED << current, win, resizes >>

\* pointerup -> sceneManager.onPointerUp({x: 0, y: 0})
PointerUp ==
  /\ scene' = IF current = "game" THEN onPointerUp(scene) ELSE scene
  /\ onExitCalls' = 0
  /\ UNCHANGED << current, win, resizes >>

\* window resize -> main's resize(): the layers take the new size
\* (CanvasLayer.resize assigns canvas.width and height, which resets the
\* three bitmaps) and the current scene's onResize runs (MenuScene has none)
Resize(size) ==
  /\ size # win
  /\ resizes < MaxResizes
  /\ resizes' = resizes + 1
  /\ win' = size
  /\ scene' = LET s == [scene EXCEPT !.layers = ClearedLayers]
               IN IF current = "game" THEN onResize(s, size) ELSE s
  /\ onExitCalls' = 0
  /\ UNCHANGED current

\* the image set by loadDocument finishes loading
ImageLoaded ==
  /\ scene.pendingSrc # 0
  /\ scene' = onload(scene, win)
  /\ onExitCalls' = 0
  /\ UNCHANGED << current, win, resizes >>

\* the window keeps its size
Next ==
  \/ \E dt \in Dts : Frame(dt)
  \/ \E p \in Points : PointerDown(p)
  \/ \E p \in Points : PointerMove(p)
  \/ PointerUp
  \/ ImageLoaded

Spec == Init /\ [][Next]_vars

\* the window is resized up to MaxResizes times
NextResize ==
  \/ Next
  \/ \E size \in Sizes : Resize(size)

SpecResize == Init /\ [][NextResize]_vars

(* --------------------- the one-second tick scenario -------------------- *)
\* update(dt = 1) on every frame and no activation of the done button; the
\* pointer is otherwise free.
DoneActivated(p) ==
  current = "game" /\ scene.phase = "Redacting" /\ pointInRect(p, scene.doneButton)

NextTicks ==
  \/ Frame(TicksPerSecond)
  \/ \E p \in Points : ~DoneActivated(p) /\ PointerDown(p)
  \/ ImageLoaded

SpecTicks == Init /\ [][NextTicks]_vars

(* ------------------------------ activations ---------------------------- *)
ReadyActivated(p) ==
  current = "game" /\ scene.phase = "Prompt" /\ pointInRect(p, scene.readyButton)

ContinueActivated(p) ==
  current = "game" /\ scene.phase = "Scoring" /\ pointInRect(p, scene.continueButton)

ExitActivated(p) ==
  /\ current = "game" /\ scene.phase = "Scoring"
  /\ ~pointInRect(p, scene.continueButton)
  /\ pointInRect(p, scene.exitButton)

Tick == \E dt \in Dts : Frame(dt)

PhaseStep(from, to) == scene.phase = from /\ scene'.phase = to

(* -------------------------------- claims ------------------------------- *)

\* C1: the phase changes only Prompt -> Redacting by a pointer-down on the
\* ready button, Redacting -> Scoring by a pointer-down on the done button or
\* by an update tick that brings the timer to 0, and Scoring -> Prompt by a
\* pointer-down on continue or exit; no other phase change occurs.
C1_PhaseTransitions ==
  [][ scene'.phase # scene.phase =>
        \/ /\ PhaseStep("Prompt", "Redacting")
           /\ \E p \in Points : ReadyActivated(p) /\ PointerDown(p)
        \/ /\ PhaseStep("Redacting", "Scoring")
           /\ \/ \E p \in Points : DoneActivated(p) /\ PointerDown(p)
              \/ current = "game" /\ Tick /\ scene'.timer = 0
        \/ /\ PhaseStep("Scoring", "Prompt")
           /\ \E p \in Points :
                (ContinueActivated(p) \/ ExitActivated(p)) /\ PointerDown(p) ]_vars

\* two rounds were played through and continued from: every transition of
\* the cycle has been taken twice
C1_Witness ==
  current = "game" /\ scene.phase = "Prompt" /\ Len(scene.scoreLog) = 2

\* C2: a round is scored exactly once.  finishRound has run at most once
\* since the round began, not at all while the phase is Redacting and once
\* when it is Scoring; the step that ends the round adds that round's
\* roundScore to totalScore, and no step taken in Scoring (a tick after the
\* timer reached 0, a click in Scoring) changes roundScore or totalScore
\* while the phase stays Scoring.
C2_OneFinishPerRound ==
  /\ [](/\ scene.finishCalls <= 1
        /\ scene.phase = "Redacting" => scene.finishCalls = 0
        /\ scene.phase = "Scoring" => scene.finishCalls = 1)
  /\ [][ /\ PhaseStep("Redacting", "Scoring") =>
              /\ scene'.totalScore = scene.totalScore + scene'.roundScore
              /\ scene'.scoreLog = Append(scene.scoreLog, scene'.roundScore)
         /\ PhaseStep("Scoring", "Scoring") =>
              /\ scene'.totalScore = scene.totalScore
              /\ scene'.roundScore = scene.roundScore
              /\ scene'.scoreLog = scene.scoreLog ]_vars

\* a second round ended by the tick that crosses zero, with a positive score
\* on top of a positive total
C2_Witness ==
  /\ scene.phase = "Scoring" /\ scene.timer = 0 /\ scene.finishCalls = 1
  /\ scene.roundScore > 0 /\ scene.totalScore > scene.roundScore

\* C3: a pointer-down that activates exit in Scoring invokes the onExit
\* callback exactly once.
C3_ExitNotifiesOnce ==
  [][ (\E p \in Points : ExitActivated(p) /\ PointerDown(p)) => onExitCalls' = 1 ]_vars

\* the exit handler has returned with the callback invoked once per frame
\* the stack could hold
C3_Witness ==
  current = "menu" /\ onExitCalls = MaxCallDepth + 1

\* C4: 0 <= timer <= timeLimit in every state; an update tick in Redacting
\* takes the timer to max(0, timer - dt); no step in Redacting increases it;
\* and the timer changes only on such a tick or on the ready activation,
\* which sets it to timeLimit.
C4_TimerBounds ==
  /\ [](0 <= scene.timer /\ scene.timer <= scene.timeLimit)
  /\ [][ /\ \A dt \in Dts :
              current = "game" /\ scene.phase = "Redacting" /\ Frame(dt)
                => scene'.timer = Max(0, scene.timer - dt)
         /\ scene.phase = "Redacting" => scene'.timer <= scene.timer
         /\ scene'.timer # scene.timer =>
              \/ current = "game" /\ scene.phase = "Redacting" /\ Tick
              \/ /\ \E p \in Points : ReadyActivated(p) /\ PointerDown(p)
                 /\ scene'.timer = scene.timeLimit ]_vars

\* the tick that would take the timer below 0 came in the middle of a stroke
C4_Witness ==
  scene.phase = "Scoring" /\ scene.timer = 0 /\ scene.isDrawing /\ scene.strokes # << >>

\* C5: with update(dt = 1) on every frame and no done activation, the phase
\* leaves Redacting for Scoring on the 29th or 30th tick after the ready
\* activation, never earlier and never later, and further ticks leave it in
\* Scoring with the round finished once.
C5_ThirtyTicks ==
  /\ [][ PhaseStep("Redacting", "Scoring") =>
           scene.ticks + 1 \in { TimeLimit - 1, TimeLimit } ]_vars
  /\ [](scene.phase = "Redacting" => scene.ticks < TimeLimit)
  /\ [][ scene.phase = "Scoring" /\ Frame(TicksPerSecond) =>
           scene'.phase = "Scoring" /\ scene'.finishCalls = 1 ]_vars

\* every round the bound allows has run out its thirty ticks
C5_Witness ==
  /\ scene.phase = "Scoring" /\ scene.timer = 0 /\ scene.finishCalls = 1
  /\ Len(scene.scoreLog) = MaxRounds

\* C6: totalScore is the sum of the round scores logged since the last
\* reset; it changes only on the step that finishes a round, by that round's
\* score, and on a reset (exit, or resetGame from the menu), to 0.
C6_TotalIsSum ==
  /\ [](scene.totalScore = SumSeq(scene.scoreLog))
  /\ [][ scene'.totalScore # scene.totalScore =>
           \/ /\ PhaseStep("Redacting", "Scoring")
              /\ scene'.totalScore = scene.totalScore + scene'.roundScore
           \/ /\ \E p \in Points : ExitActivated(p) /\ PointerDown(p)
              /\ scene'.totalScore = 0
           \/ /\ current = "menu" /\ \E p \in Points : PointerDown(p)
              /\ scene'.totalScore = 0 ]_vars

\* two rounds with positive scores in a window that was resized
C6_Witness ==
  /\ Len(scene.scoreLog) = 2 /\ scene.scoreLog[1] > 0 /\ scene.scoreLog[2] > 0
  /\ resizes = 1

\* C7: a pointer-down that activates exit in Scoring leaves totalScore and
\* roundScore 0, the stroke list empty, the coverage raster clear and the
\* phase Prompt.
C7_ExitResets ==
  [][ (\E p \in Points : ExitActivated(p) /\ PointerDown(p)) =>
        /\ scene'.totalScore = 0
        /\ scene'.roundScore = 0
        /\ scene'.strokes = << >>
        /\ scene'.raster = {}
        /\ scene'.phase = "Prompt" ]_vars

\* the exit handler has just run
C7_Witness ==
  /\ current = "menu" /\ onExitCalls > 0
  /\ scene.phase = "Prompt" /\ scene.totalScore = 0 /\ scene.raster = {}
  /\ scene.exitButton # NoOne

\* C8: a pointer-down that activates ready in Prompt leaves the phase
\* Redacting, the timer at timeLimit, the stroke list empty and the coverage
\* raster clear.
C8_ReadyStartsRound ==
  [][ (\E p \in Points : ReadyActivated(p) /\ PointerDown(p)) =>
        /\ scene'.phase = "Redacting"
        /\ scene'.timer = scene.timeLimit
        /\ scene'.strokes = << >>
        /\ scene'.raster = {} ]_vars

\* a second round has just begun
C8_Witness ==
  /\ scene.phase = "Redacting" /\ scene.timer = scene.timeLimit
  /\ scene.strokes = << >> /\ Len(scene.scoreLog) = 1

\* C9: the masks loaded since index 0 was last loaded are pairwise distinct,
\* and once NumMasks of them are loaded they are the whole catalog.
C9_OncePerPass ==
  /\ \A i, j \in 1..Len(scene.presented) :
       i # j => scene.presented[i] # scene.presented[j]
  /\ Len(scene.presented) <= NumMasks
  /\ Len(scene.presented) = NumMasks =>
       { scene.presented[i] : i \in 1..NumMasks } = MaskIds

\* the last round of a full pass is finished
C9_Witness ==
  /\ Len(scene.presented) = NumMasks /\ Len(scene.scoreLog) = NumMasks
  /\ scene.phase = "Scoring"

\* C10: a continue advances the index by one; when the index has reached
\* the sequence length, the continue wraps it and reshuffles the sequence.
C10_WrapReshuffles ==
  [][ (\E p \in Points : ContinueActivated(p) /\ PointerDown(p)) =>
        IF scene.currentMaskIndex >= Len(scene.masks)
        THEN scene'.currentMaskIndex = 1 /\ scene'.shuffleCount = scene.shuffleCount + 1
        ELSE scene'.currentMaskIndex = scene.currentMaskIndex + 1
               /\ scene'.shuffleCount = scene.shuffleCount ]_vars

\* a pass has wrapped: the first mask of the order is loaded again after
\* NumMasks rounds, in the order the constructor shuffled
C10_Witness ==
  /\ Len(scene.scoreLog) = NumMasks /\ scene.phase = "Prompt"
  /\ scene.currentMaskIndex = 1 /\ scene.shuffleCount = 1

(* ------------------------- claims on the document ---------------------- *)
\* a pointer event of this step is handed to screenToDocument
InputMapped ==
  /\ current = "game" /\ scene.phase = "Redacting"
  /\ \/ \E p \in Points : ~DoneActivated(p) /\ PointerDown(p)
     \/ scene.isDrawing /\ \E p \in Points : PointerMove(p)

\* this step scores the round
RoundScored == PhaseStep("Redacting", "Scoring")

\* C11: whenever a pointer event is mapped to document space or a round is
\* scored, the image the layout was computed from and the dimensions of the
\* coverage raster are those of the current mask's image.
C11_CurrentImageInUse ==
  [][ InputMapped \/ RoundScored =>
        /\ scene.loaded = scene.mask
        /\ scene.docImage = MaskImage(scene.mask)
        /\ scene.coverage = MaskImage(scene.mask) ]_vars

\* the second round was drawn and scored while the second mask's image was
\* still loading, on the raster dimensions of the first mask's image
C11_Witness ==
  /\ scene.phase = "Scoring" /\ Len(scene.scoreLog) = 2 /\ scene.strokes # << >>
  /\ scene.pendingSrc = scene.mask /\ scene.loaded # scene.mask
  /\ scene.coverage # MaskImage(scene.mask)

\* the cells the stroke points of a list paint on a w x h raster
PaintedBy(strokes, w, h) ==
  UNION { DiscCells(strokes[k], w, h) : k \in 1..Len(strokes) }

\* this step loads a mask: continue, or the menu's resetGame
MaskLoaded ==
  \/ \E p \in Points : ContinueActivated(p) /\ PointerDown(p)
  \/ current = "menu" /\ \E p \in Points : PointerDown(p)

\* C12: a step that enters Redacting or loads a mask leaves the coverage
\* raster clear and the stroke list empty, and in every state (so also when
\* a round is scored) every painted cell of the raster is painted by a point
\* of the stroke list, which holds the strokes of the round under way only.
C12_RasterOfThisRound ==
  /\ [](scene.raster \subseteq
          PaintedBy(scene.strokes, scene.coverage.width, scene.coverage.height))
  /\ [][ PhaseStep("Prompt", "Redacting") \/ MaskLoaded =>
           scene'.raster = {} /\ scene'.strokes = << >> ]_vars

\* a second round was painted and scored on the raster of its own image
C12_Witness ==
  /\ scene.phase = "Scoring" /\ Len(scene.scoreLog) = 2
  /\ scene.raster # {} /\ scene.loaded = scene.mask

\* the screen point p lies outside the displayed document
OutsideDocument(p) ==
  \/ p.x < scene.layout.offsetX \/ p.x > scene.layout.offsetX + scene.layout.drawWidth
  \/ p.y < scene.layout.offsetY \/ p.y > scene.layout.offsetY + scene.layout.drawHeight

\* C13: every stored stroke point has 0 <= x <= 1 and 0 <= y <= 1, no
\* handler reads an undefined layout, and a pointer-down or pointer-move
\* handed to the stroke code with a screen point outside the displayed
\* document leaves strokes, the raster and the drawing flag as they were.
C13_StrokesInsideDocument ==
  /\ [](/\ \A k \in 1..Len(scene.strokes) :
             /\ 0 <= scene.strokes[k].x /\ scene.strokes[k].x <= NormDen
             /\ 0 <= scene.strokes[k].y /\ scene.strokes[k].y <= NormDen
        /\ ~scene.typeError)
  /\ [][ \A p \in Points :
           /\ current = "game" /\ scene.phase = "Redacting" /\ OutsideDocument(p)
           /\ \/ ~DoneActivated(p) /\ PointerDown(p)
              \/ scene.isDrawing /\ PointerMove(p)
           => /\ scene'.strokes = scene.strokes
              /\ scene'.raster = scene.raster
              /\ scene'.isDrawing = scene.isDrawing ]_vars

\* a stroke is under way and the done button, which lies outside the
\* displayed document, has not been drawn yet: a pointer event there goes to
\* the stroke code
C13_Witness ==
  /\ current = "game" /\ scene.phase = "Redacting" /\ scene.isDrawing
  /\ scene.strokes # << >> /\ scene.doneButton = NoOne
  /\ \E p \in Points : OutsideDocument(p)

(* -------------------- coordinates in double precision ------------------ *)
\* A non-negative double is modelled exactly, as its integer part ip and
\* the bits of its fraction, most significant first and without trailing
\* zeros.  Results are rounded to MantissaBits significant bits, to nearest,
\* ties to even, as IEEE-754 binary64 arithmetic does.
MantissaBits == 53

\* products of fraction bits are computed in limbs of LimbBits bits
LimbBits == 13

\* the bits of the integer n >= 0
BitLen(n) == Cardinality({ k \in 0..20 : 2 ^ k <= n })

\* bits without its trailing zeros
Trim(bits) ==
  LET ones == { k \in 1..Len(bits) : bits[k] = 1 }
  IN SubSeq(bits, 1, Cardinality({ k \in 1..Len(bits) : \E j \in ones : k <= j }))

\* the zeros before the first 1 of bits
LeadingZeros(bits) ==
  Cardinality({ k \in 1..Len(bits) : \A j \in 1..k : bits[j] = 0 })

\* ip.bits plus one unit in the last place of bits: the 1s after the last 0
\* become 0 and that 0 becomes 1; with no 0 the carry reaches ip
Inc(ip, bits) ==
  LET z == Cardinality({ k \in 1..Len(bits) : \E j \in k..Len(bits) : bits[j] = 0 })
  IN IF z = 0 THEN [ip |-> ip + 1, frac |-> [k \in 1..Len(bits) |-> 0]]
     ELSE [ip |-> ip,
           frac |-> [k \in 1..Len(bits) |->
                       IF k < z THEN bits[k] ELSE IF k = z THEN 1 ELSE 0]]

\* the double nearest to ip.frac (+ something below the last bit of frac
\* when sticky)
RoundDouble(ip, frac, sticky) ==
  LET keep == IF ip > 0 THEN Max(0, MantissaBits - BitLen(ip))
                        ELSE LeadingZeros(frac) + MantissaBits
  IN IF Len(frac) <= keep THEN [ip |-> ip, frac |-> Trim(frac)]
     ELSE LET guard == frac[keep + 1]
              rest == sticky \/ \E k \in (keep + 2)..Len(frac) : frac[k] = 1
              last == IF keep = 0 THEN ip % 2 ELSE frac[keep]
              kept == SubSeq(frac, 1, keep)
          IN IF guard = 1 /\ (rest \/ last = 1)
             THEN LET up == Inc(ip, kept) IN [ip |-> up.ip, frac |-> Trim(up.frac)]
             ELSE [ip |-> ip, frac |-> Trim(kept)]

\* 2 ^ k modulo d
RECURSIVE Pow2Mod(_, _)
Pow2Mod(k, d) ==
  IF k = 0 THEN 1 % d
  ELSE LET h == Pow2Mod(k \div 2, d)
       IN (((h * h) % d) * (IF k % 2 = 1 THEN 2 ELSE 1)) % d

\* the first k bits of the fraction r / d (0 <= r < d), by long division,
\* and the remainder left after them
FracBits(r, d, k) ==
  [bits |-> [j \in 1..k |-> (2 * ((r * Pow2Mod(j - 1, d)) % d)) \div d],
   rem |-> (r * Pow2Mod(k, d)) % d]

\* the zeros before the first 1 of the fraction r / d
ZerosOf(r, d) == IF r = 0 THEN 0 ELSE Cardinality({ k \in 1..LimbBits : r * 2 ^ k < d })

\* n / d for integers n >= 0, d > 0
DivDouble(n, d) ==
  LET ip == n \div d
      r == n % d
      k == (IF ip > 0 THEN Max(0, MantissaBits - BitLen(ip))
                      ELSE ZerosOf(r, d) + MantissaBits) + 1
      q == FracBits(r, d, k)
  IN RoundDouble(ip, q.bits, q.rem # 0)

Bit(bits, k) == IF k >= 1 /\ k <= Len(bits) THEN bits[k] ELSE 0

\* limb j (j = 0 is the most significant) of bits
Limb(bits, j) ==
  LET b(i) == Bit(bits, LimbBits * j + i)
  IN b(1) * 4096 + b(2) * 2048 + b(3) * 1024 + b(4) * 512 + b(5) * 256
       + b(6) * 128 + b(7) * 64 + b(8) * 32 + b(9) * 16 + b(10) * 8
       + b(11) * 4 + b(12) * 2 + b(13)

\* limb j of bits, times d, plus the carry of the limbs after it
RECURSIVE LimbProduct(_, _, _)
LimbProduct(bits, d, j) ==
  IF LimbBits * j >= Len(bits) THEN 0
  ELSE Limb(bits, j) * d + (LimbProduct(bits, d, j + 1) \div (2 ^ LimbBits))

\* bits * d: the product's fraction bits and the carry into the integer part
MulBits(bits, d) ==
  LET n == CeilDiv(Len(bits), LimbBits)
      digit(j) == LimbProduct(bits, d, j) % (2 ^ LimbBits)
  IN [bits |-> [k \in 1..(LimbBits * n) |->
                  (digit((k - 1) \div LimbBits)
                     \div (2 ^ (LimbBits - 1 - ((k - 1) % LimbBits)))) % 2],
      carry |-> LimbProduct(bits, d, 0) \div (2 ^ LimbBits)]

\* v * d for a double v and an integer d >= 0
MulDouble(v, d) ==
  LET m == MulBits(v.frac, d)
  IN RoundDouble(v.ip * d + m.carry, m.bits, FALSE)

\* v + o for a double v and an integer o >= 0
AddDouble(v, o) == RoundDouble(v.ip + o, v.frac, FALSE)

\* screenToDocument on doubles, for a layout and a point with whole-pixel
\* fields
screenToDocumentDouble(layout, p) ==
  LET nx == p.x - layout.offsetX
      ny == p.y - layout.offsetY
  IN IF nx < 0 \/ nx > layout.drawWidth \/ ny < 0 \/ ny > layout.drawHeight
     THEN NoOne
     ELSE [x |-> DivDouble(nx, layout.drawWidth), y |-> DivDouble(ny, layout.drawHeight)]

\* documentToScreen with the offsets left out
documentToScreenNoOffset(layout, q) ==
  [x |-> MulDouble(q.x, layout.drawWidth), y |-> MulDouble(q.y, layout.drawHeight)]

\* documentToScreen: p.x * drawWidth + offsetX, p.y * drawHeight + offsetY
documentToScreen(layout, q) ==
  [x |-> AddDouble(MulDouble(q.x, layout.drawWidth), layout.offsetX),
   y |-> AddDouble(MulDouble(q.y, layout.drawHeight), layout.offsetY)]

\* the double that is the integer n
Exact(n) == [ip |-> n, frac |-> << >>]

\* v is a finite double that is not negative
IsDouble(v) ==
  /\ v.ip \in Nat
  /\ v.frac \in Seq({0, 1})
  /\ v.frac # << >> => v.frac[Len(v.frac)] = 1

\* the 1s before the first 0 of bits
LeadingOnes(bits) == Cardinality({ k \in 1..Len(bits) : \A j \in 1..k : bits[j] = 1 })

\* |v - n| < 2 ^ -ToleranceBits
ToleranceBits == MantissaBits - LimbBits

Near(v, n) ==
  \/ v = Exact(n)
  \/ v.ip = n /\ LeadingZeros(v.frac) >= ToleranceBits
  \/ v.ip = n - 1 /\ LeadingOnes(v.frac) >= ToleranceBits

\* twice correct * 20 - falsePositive * 1.5 - missed * 0.5 for the raster of s
WeightedTwice(s) ==
  LET w == s.coverage.width
      h == s.coverage.height
      rects == TargetRects(s.mask)
  IN correctCount(s.raster, rects, w, h) * 40
       - falsePositiveCount(s.raster, rects, w, h) * 3
       - missedCount(s.raster, rects, w, h)

\* C15: calculateScore returns a non-negative integer whatever the raster,
\* the target rects and the remaining time (with or without the time bonus),
\* and roundScore and totalScore are never negative.
C15_ScoreNotNegative ==
  /\ scene.roundScore \in Nat
  /\ scene.totalScore \in Nat
  /\ scene.imageLoaded =>
       \A ph \in {"Redacting", "Scoring"} : \A t \in {0, scene.timer, scene.timeLimit} :
         calculateScore([scene EXCEPT !.phase = ph, !.timer = t]) \in Nat

\* a round scored 0 although its weighted subtotal is negative
C15_Witness ==
  /\ scene.phase = "Scoring"
  /\ WeightedTwice(scene) < 0
  /\ scene.roundScore = 0
  /\ scene.scoreLog # << >>

(***************************************************************************)
(* The round trip of a pointer position: onPointerDown and onPointerMove   *)
(* store screenToDocument(p) in strokes, render maps each stored point     *)
(* back with documentToScreen.  Here scene holds the layout, the pointer   *)
(* position p, the stored point doc and the point back that render draws;  *)
(* the layouts are those computeLayout gives at scale 1 (a canvas as high  *)
(* as the image and 2 * offsetX wider).                                    *)
(***************************************************************************)
RoundTripLayouts ==
  { [offsetX |-> ox, offsetY |-> 0, drawWidth |-> w, drawHeight |-> h] :
      ox \in {0, 25}, w \in {3, 7, 49, 100}, h \in {5, 49} }

RoundTripPoints(layout) ==
  { [x |-> layout.offsetX + dx, y |-> dy] :
      dx \in {0 - 1, 0, 1, layout.drawWidth - 1, layout.drawWidth},
      dy \in {1, layout.drawHeight} }

\* normalized points that no pointer position of these layouts maps to
OtherPoints == { [x |-> DivDouble(1, 3), y |-> DivDouble(1, 1)],
                 [x |-> DivDouble(0, 1), y |-> DivDouble(9, 10)] }

InitRoundTrip ==
  /\ \E layout \in RoundTripLayouts :
        \/ \E p \in RoundTripPoints(layout) :
             scene = [layout |-> layout, p |-> p, doc |-> NoOne, back |-> NoOne]
        \/ \E q \in OtherPoints :
             scene = [layout |-> layout, p |-> NoOne, doc |-> q, back |-> NoOne]
  /\ current = "game"
  /\ win = <<600, 500>>
  /\ onExitCalls = 0
  /\ resizes = 0

\* startStroke / addStroke: the point screenToDocument gives is stored
ToDocument ==
  /\ scene.p # NoOne
  /\ scene.doc = NoOne
  /\ screenToDocumentDouble(scene.layout, scene.p) # NoOne
  /\ scene' = [scene EXCEPT !.doc = screenToDocumentDouble(scene.layout, scene.p)]
  /\ UNCHANGED << current, win, onExitCalls, resizes >>

\* render: the stored point is mapped back to the screen
ToScreen ==
  /\ scene.doc # NoOne
  /\ scene.back = NoOne
  /\ scene' = [scene EXCEPT !.back = documentToScreen(scene.layout, scene.doc)]
  /\ UNCHANGED << current, win, onExitCalls, resizes >>

NextRoundTrip == ToDocument \/ ToScreen

SpecRoundTrip == InitRoundTrip /\ [][NextRoundTrip]_vars

\* C14 as stated: the round trip of a pointer position that maps inside the
\* document gives exactly that position.
C14_ExactRoundTrip ==
  scene.p # NoOne /\ scene.back # NoOne =>
    /\ scene.back.x = Exact(scene.p.x)
    /\ scene.back.y = Exact(scene.p.y)

\* C14: for every layout with positive drawWidth and drawHeight, the round
\* trip of a pointer position that maps inside the document gives that
\* position within floating-point tolerance (2 ^ -ToleranceBits), and
\* documentToScreen gives a finite point inside the drawn image for every
\* normalized point.
C14_RoundTrip ==
  scene.back # NoOne =>
    /\ IsDouble(scene.back.x) /\ IsDouble(scene.back.y)
    /\ scene.back.x.ip \in (scene.layout.offsetX - 1)..(scene.layout.offsetX + scene.layout.drawWidth)
    /\ scene.back.y.ip \in (scene.layout.offsetY - 1)..(scene.layout.offsetY + scene.layout.drawHeight)
    /\ scene.p # NoOne => Near(scene.back.x, scene.p.x) /\ Near(scene.back.y, scene.p.y)

\* a round trip that does not give the position back exactly
C14_Witness ==
  /\ scene.p # NoOne /\ scene.back # NoOne
  /\ scene.layout.drawWidth > 0 /\ scene.layout.drawHeight > 0
  /\ scene.back.x # Exact(scene.p.x)
  /\ Near(scene.back.x, scene.p.x)

(***************************************************************************)
(* calculateScore as a function of the raster, the mask and the remaining  *)
(* time.  The scene is in Redacting on one of the ScoreMasks with its      *)
(* image loaded; the raster starts clear or with exactly the cells the     *)
(* target rects cover painted; PaintCell fills one more cell of the        *)
(* coverage canvas, Score ends the round.                                  *)
(***************************************************************************)
\* the cells of a w x h raster that a rect of positive area covers: the
\* pixel squares [i, i + 1) x [j, j + 1) that overlap the rect
Covered(r, w, h) ==
  IF r.width = 0 \/ r.height = 0 THEN {}
  ELSE { c \in (0..(w - 1)) \X (0..(h - 1)) :
           /\ (c[1] + 1) * RectDen > r.x * w
           /\ c[1] * RectDen < (r.x + r.width) * w
           /\ (c[2] + 1) * RectDen > r.y * h
           /\ c[2] * RectDen < (r.y + r.height) * h }

CoveredAll(m) ==
  UNION { Covered(TargetRects(m)[k], MaskImage(m).width, MaskImage(m).height) :
            k \in 1..Len(TargetRects(m)) }

\* remaining times a round is scored at
ScoreTimers == {0, (TimeLimit * TicksPerSecond) \div 2}

\* the cells PaintCell fills: the first sample of the first rect's missed
\* loop, two samples of the painted pass next to it, and a sample of the
\* painted pass in the bottom left corner
PaintCells(m) ==
  LET r == TargetRects(m)[1]
      w == MaskImage(m).width
      h == MaskImage(m).height
      sx == FloorF(r.x * w, RectDen, ErrLo(r.x, w))
      sy == FloorF(r.y * h, RectDen, ErrLo(r.y, h))
      gx == Step * CeilDiv(sx, Step)
      gy == Step * CeilDiv(sy, Step)
  IN { <<sx, sy>>, <<gx, gy>>, <<gx + Step, gy>>, <<0, Step * ((h - 1) \div Step)>> }

InitScore ==
  /\ \E m \in ScoreMasks, t \in ScoreTimers : \E raster \in { {}, CoveredAll(m) } :
        scene = [GameSceneFields(<< m >>) EXCEPT
                   !.imageLoaded = TRUE,
                   !.docImage = MaskImage(m),
                   !.coverage = MaskImage(m),
                   !.layout = computeLayout(<<600, 500>>, MaskImage(m)),
                   !.loaded = m,
                   !.mask = m,
                   !.currentMaskIndex = 1,
                   !.presented = << m >>,
                   !.phase = "Redacting",
                   !.timer = t,
                   !.raster = raster]
  /\ current = "game"
  /\ win = <<600, 500>>
  /\ onExitCalls = 0
  /\ resizes = 0

\* ctx.fill on the coverage canvas reaches cell c
PaintCell(c) ==
  /\ scene.phase = "Redacting"
  /\ c \notin scene.raster
  /\ scene' = [scene EXCEPT !.raster = @ \cup {c}]
  /\ UNCHANGED << current, win, onExitCalls, resizes >>

\* finishRound
Score ==
  /\ scene.phase = "Redacting"
  /\ scene' = finishRound(scene)
  /\ UNCHANGED << current, win, onExitCalls, resizes >>

NextScore ==
  \/ \E c \in PaintCells(scene.mask) : PaintCell(c)
  \/ Score

SpecScore == InitScore /\ [][NextScore]_vars

\* the counts calculateScore takes of the raster of the scene
Correct == correctCount(scene.raster, TargetRects(scene.mask),
                        scene.coverage.width, scene.coverage.height)

FalsePositive == falsePositiveCount(scene.raster, TargetRects(scene.mask),
                                    scene.coverage.width, scene.coverage.height)

Missed == missedCount(scene.raster, TargetRects(scene.mask),
                      scene.coverage.width, scene.coverage.height)

ZeroArea(r) == r.width = 0 \/ r.height = 0

\* C16: a target rect of zero area adds nothing to the missed count,
\* wherever it lies in the document.
C16_ZeroAreaNoSamples ==
  \A k \in 1..Len(TargetRects(scene.mask)) :
    ZeroArea(TargetRects(scene.mask)[k]) =>
      missedInRect(scene.raster, TargetRects(scene.mask)[k],
                   scene.coverage.width, scene.coverage.height) = 0

\* a round scored on a clear raster in which a rect of zero area is counted
C16_Witness ==
  /\ scene.phase = "Scoring"
  /\ scene.raster = {}
  /\ \E k \in 1..Len(TargetRects(scene.mask)) :
        /\ ZeroArea(TargetRects(scene.mask)[k])
        /\ missedInRect(scene.raster, TargetRects(scene.mask)[k],
                        scene.coverage.width, scene.coverage.height) > 0

\* the samples the missed loop takes in the pixel range of r: every
\* step-th column from startX below endX, every step-th row from startY
\* below endY
SampleCount(r, w, h) ==
  LET startX == FloorF(r.x * w, RectDen, ErrLo(r.x, w))
      endX == CeilF((r.x + r.width) * w, RectDen, ErrHi(r.x, r.width, w))
      startY == FloorF(r.y * h, RectDen, ErrLo(r.y, h))
      endY == CeilF((r.y + r.height) * h, RectDen, ErrHi(r.y, r.height, h))
  IN CeilDiv(Max(0, endX - startX), Step) * CeilDiv(Max(0, endY - startY), Step)

RECURSIVE SamplesOf(_, _, _)
SamplesOf(rects, w, h) ==
  IF rects = << >> THEN 0
  ELSE SampleCount(Head(rects), w, h) + SamplesOf(Tail(rects), w, h)

C18_CoveredNoMissed ==
  /\ \A k \in 1..Len(TargetRects(scene.mask)) : ~ZeroArea(TargetRects(scene.mask)[k])
  /\ scene.raster = CoveredAll(scene.mask)
  => Missed = 0

\* a round scored with exactly the covered cells painted and samples missed
C18_Witness ==
  /\ scene.phase = "Scoring"
  /\ \A k \in 1..Len(TargetRects(scene.mask)) : ~ZeroArea(TargetRects(scene.mask)[k])
  /\ scene.raster = CoveredAll(scene.mask)
  /\ Missed > 0

\* the mask whose one target rect is {x: 0.1, y: 0.1, width: 0.2, height: 0.2}
\* on a 100 x 100 image
ScenarioMask == CHOOSE m \in ScoreMasks : \A n \in ScoreMasks : m <= n

\* C19: the rect {0.1, 0.1, 0.2, 0.2} on a 100 x 100 raster painted on
\* exactly the cells it covers scores missed = 0, falsePositive = 0,
\* correct > 0 and a score > 0.
C19_Scenario ==
  /\ scene.mask = ScenarioMask
  /\ scene.raster = CoveredAll(ScenarioMask)
  /\ scene.phase = "Scoring"
  => /\ Missed = 0
     /\ FalsePositive = 0
     /\ Correct > 0
     /\ scene.roundScore > 0

\* the scenario scored: all of it holds but missed = 0
C19_Witness ==
  /\ scene.mask = ScenarioMask
  /\ TargetRects(scene.mask) = << [x |-> 10, y |-> 10, width |-> 20, height |-> 20] >>
  /\ scene.coverage = [width |-> 100, height |-> 100]
  /\ scene.raster = (10..29) \X (10..29)
  /\ scene.phase = "Scoring"
  /\ FalsePositive = 0 /\ Correct > 0 /\ scene.roundScore > 0
  /\ Missed > 0

\* the score of the raster of s at the remaining time of s
ScoreOf(s) == calculateScore([s EXCEPT !.phase = "Scoring"])

\* C20: a paint step that leaves falsePositive and missed as they were
\* lowers neither correct nor the score (mask and remaining time are fixed
\* during a round).
C20_Monotonic ==
  [][ /\ \E c \in PaintCells(scene.mask) : PaintCell(c)
      /\ FalsePositive' = FalsePositive
      /\ Missed' = Missed
      => /\ Correct' >= Correct
         /\ ScoreOf(scene') >= ScoreOf(scene)
         /\ scene'.mask = scene.mask /\ scene'.timer = scene.timer ]_vars

\* a painted cell that raised correct and the score and changed neither
\* falsePositive nor missed
C20_Witness ==
  /\ scene.phase = "Redacting"
  /\ scene.raster # {}
  /\ scene.raster \subseteq PaintCells(scene.mask)
  /\ \E c \in PaintCells(scene.mask) \cap scene.raster :
        LET before == [scene EXCEPT !.raster = @ \ {c}]
            w == scene.coverage.width
            h == scene.coverage.height
            rects == TargetRects(scene.mask)
        IN /\ falsePositiveCount(before.raster, rects, w, h) = FalsePositive
           /\ missedCount(before.raster, rects, w, h) = Missed
           /\ correctCount(before.raster, rects, w, h) < Correct
           /\ ScoreOf(before) < ScoreOf(scene)

\* |a|
Abs(a) == IF a < 0 THEN 0 - a ELSE a

\* v is an integer nearest to n / d, or 0 when n / d is negative
NearestOrZero(v, n, d) ==
  \/ n <= 0 /\ v = 0
  \/ n > 0 /\ 2 * Abs(v * d - n) <= d

\* C21: the step that ends a round gives roundScore the nearest integer to
\* subtotal + subtotal * 0.5 * (timer / timeLimit), clamped at 0, where
\* subtotal is correct * 20 - falsePositive * 1.5 - missed * 0.5 and timer is
\* the time that remained when the round ended: what the timer showed when
\* done was activated, and 0 when an update tick brought the timer to 0.
\* The timer lies in 0..timeLimit, so the bonus is at most half the subtotal.
C21_TimeBonus ==
  [][ PhaseStep("Redacting", "Scoring") =>
        /\ scene'.timer >= 0 /\ scene'.timer <= scene'.timeLimit
        /\ scene'.raster = scene.raster
        /\ NearestOrZero(scene'.roundScore,
                         WeightedTwice(scene') * (2 * scene'.timeLimit + scene'.timer),
                         4 * scene'.timeLimit)
        /\ (\E p \in Points : DoneActivated(p) /\ PointerDown(p)) =>
              scene'.timer = scene.timer
        /\ Tick => /\ scene'.timer = 0
                   /\ NearestOrZero(scene'.roundScore, WeightedTwice(scene'), 2) ]_vars

\* a round ended by done with time remaining, scored above its subtotal
C21_Witness ==
  /\ scene.phase = "Scoring"
  /\ scene.timer > 0 /\ scene.timer < scene.timeLimit
  /\ WeightedTwice(scene) > 0
  /\ 2 * scene.roundScore > WeightedTwice(scene) + 1
  /\ scene.scoreLog # << >>

\* what the score of a round is computed from: the coverage raster, the
\* mask, the pixel size of the document image and the remaining time
ScoreInputs(s) ==
  [phase |-> s.phase, raster |-> s.raster, mask |-> s.mask, coverage |-> s.coverage,
   timer |-> s.timer, timeLimit |-> s.timeLimit]

\* what a stroke and its score depend on, as a tuple of fields of the scene
RoundState(s) ==
  << s.strokes, s.raster, s.coverage, s.mask, s.timer, s.phase, s.roundScore,
     s.totalScore, s.scoreLog >>

\* C22: neither the raster nor the score depends on the window size or the
\* layout.  A resize changes neither strokes, raster, timer nor scores; a
\* step that records a normalized point q paints the disc of q on the
\* raster at the pixel size of the coverage canvas, every other step leaves
\* the raster as it is or clears it; and the score of a round is a function
\* of the raster, the mask, the size of the coverage canvas and the
\* remaining time alone.
C22_LayoutIndependent ==
  [][ /\ (\E size \in Sizes : Resize(size)) => RoundState(scene') = RoundState(scene)
      /\ Len(scene'.strokes) = Len(scene.strokes) + 1 =>
            /\ SubSeq(scene'.strokes, 1, Len(scene.strokes)) = scene.strokes
            /\ scene'.raster = scene.raster \cup
                  DiscCells(scene'.strokes[Len(scene'.strokes)],
                            scene.coverage.width, scene.coverage.height)
      /\ Len(scene'.strokes) # Len(scene.strokes) + 1 =>
            scene'.raster = scene.raster \/ scene'.raster = {}
      /\ PhaseStep("Redacting", "Scoring") =>
            scene'.roundScore = calculateScore(ScoreInputs(scene')) ]_vars

\* a round drawn and scored after the window was resized
C22_Witness ==
  /\ scene.phase = "Scoring"
  /\ resizes > 0
  /\ scene.layout = computeLayout(win, scene.docImage)
  /\ scene.layout # computeLayout(<<600, 500>>, scene.docImage)
  /\ scene.strokes # << >>
  /\ scene.raster = PaintedBy(scene.strokes, scene.coverage.width, scene.coverage.height)
  /\ scene.roundScore > 0

C24_NotReadyGuard ==
  /\ [](/\ ~scene.typeError
        /\ ~scene.imageLoaded => scene.phase = "Prompt" /\ scene.layout = NoOne
        /\ scene.phase = "Redacting" => scene.layout # NoOne)
  /\ [][ ~scene.imageLoaded =>
            /\ Tick => scene' = scene
            /\ ~ImageLoaded => /\ scene'.phase = "Prompt"
                               /\ ~scene'.imageLoaded
                               /\ scene'.readyButton = NoOne ]_vars
  /\ [][ InputMapped => scene.layout # NoOne ]_vars

\* the game scene is current and its first image has not finished loading
C24_Witness ==
  /\ current = "game"
  /\ ~scene.imageLoaded
  /\ scene.pendingSrc # 0
  /\ scene.phase = "Prompt"
  /\ scene.needsRedraw

(* ------------------------ frames shorter than 1 s ---------------------- *)
\* Frames of one tick and of more than a second; the pointer activates
\* ready, continue, exit and the menu's start, and draws no stroke.
FrameDts == {1, TicksPerSecond + 1}

NextFrames ==
  \/ \E dt \in FrameDts : Frame(dt)
  \/ \E p \in Points : (current = "game" => scene.phase # "Redacting") /\ PointerDown(p)
  \/ ImageLoaded

SpecFrames == Init /\ [][NextFrames]_vars

\* Math.ceil(this.timer) of a scene
Shown(s) == CeilDiv(s.timer, TicksPerSecond)

\* C25: in Redacting, an update tick that changes Math.ceil(timer) sets
\* needsRedraw, so the frame's render draws the new value: after every frame
\* the countdown on the UI layer is the value the timer now displays, and
\* while no redraw is pending (a tick did not change the value) the
\* countdown drawn earlier is still that value.
C25_CountdownCurrent ==
  /\ [](scene.phase = "Redacting" =>
          /\ ~scene.needsRedraw => scene.countdown = Shown(scene)
          /\ scene.countdown \in {0 - 1, Shown(scene)})
  /\ [][ \A dt \in FrameDts :
            Frame(dt) /\ current = "game" /\ scene.phase = "Redacting" =>
              /\ Shown(update(scene, dt)) # Shown(scene) => update(scene, dt).needsRedraw
              /\ scene'.phase = "Redacting" => scene'.countdown = Shown(scene') ]_vars

\* three frames of one tick into a round: the third left the displayed
\* value as it was and redrew nothing
C25_Witness ==
  /\ scene.phase = "Redacting"
  /\ scene.ticks = 3
  /\ scene.timer = scene.timeLimit - 3
  /\ ~scene.needsRedraw
  /\ scene.countdown = Shown(scene)

\* the mask that follows the current one in the order of the scene, the
\* first one after the last
NextInSequence(s) == s.masks[(s.currentMaskIndex % Len(s.masks)) + 1]

\* C26: a pointer-down that activates continue makes the next mask of the
\* sequence the current one (its prompt with it) and its image the one
\* being loaded, puts the phase back to Prompt, leaves strokes and raster
\* empty and requests a redraw; totalScore, roundScore and the mask order
\* stay as they are.
C26_ContinueLoadsNext ==
  [][ (\E p \in Points : ContinueActivated(p) /\ PointerDown(p)) =>
        /\ scene'.mask = NextInSequence(scene)
        /\ scene'.pendingSrc = scene'.mask
        /\ scene'.phase = "Prompt"
        /\ scene'.strokes = << >>
        /\ scene'.raster = {}
        /\ scene'.needsRedraw
        /\ scene'.totalScore = scene.totalScore
        /\ scene'.roundScore = scene.roundScore
        /\ scene'.masks = scene.masks
        /\ current' = "game" ]_vars

\* the second mask is prompted after a drawn round with a positive score
C26_Witness ==
  /\ scene.phase = "Prompt"
  /\ Len(scene.scoreLog) = 1
  /\ scene.totalScore > 0
  /\ Len(scene.presented) = 2
  /\ scene.mask = scene.masks[2]
  /\ scene.pendingSrc = scene.mask
  /\ scene.strokes = << >> /\ scene.raster = {}

(* ------------------------- draws of a dirty render --------------------- *)
\* a frame whose render finds the image loaded and needsRedraw set
DirtyRender ==
  \E dt \in Dts : /\ Frame(dt)
                  /\ current = "game"
                  /\ update(scene, dt).imageLoaded
                  /\ update(scene, dt).needsRedraw

\* the texts and buttons drawUI draws in a phase
UIOf(phase) ==
  CASE phase = "Prompt" -> {"prompt", "READY"}
    [] phase = "Redacting" -> {"Time", "DONE"}
    [] phase = "Scoring" -> {"Round Score", "Total Score", "CONTINUE", "EXIT"}

PaintedSamples ==
  { c \in (Strided(0, scene.coverage.width) \X Strided(0, scene.coverage.height))
            \cap scene.raster :
      ~AlphaIsZero(scene.raster, scene.coverage.width, scene.coverage.height, c[1], c[2]) }

\* x >= r.x * w && y >= r.y * h && x <= (r.x + r.width) * w &&
\* y <= (r.y + r.height) * h over the reals: pixel (x, y) of a w x h raster
\* is inside rect r or on one of its four edges
insideInclusive(r, x, y, w, h) ==
  /\ x * RectDen >= r.x * w
  /\ y * RectDen >= r.y * h
  /\ x * RectDen <= (r.x + r.width) * w
  /\ y * RectDen <= (r.y + r.height) * h

\* C28: every painted sample is counted in exactly one of correct and
\* falsePositive, and correct counts, once each, the painted samples that
\* lie inside at least one target rect or on one of its edges.
C28_PaintedPass ==
  /\ Correct + FalsePositive = Cardinality(PaintedSamples)
  /\ Correct = Cardinality({ c \in PaintedSamples :
                 \E k \in 1..Len(TargetRects(scene.mask)) :
                   insideInclusive(TargetRects(scene.mask)[k], c[1], c[2],
                                   scene.coverage.width, scene.coverage.height) })

\* a round is scored with a painted sample on the right edge of the rect
\* {x: 0.05, y: 0.05, width: 0.35, height: 0.35} of a 20 x 20 image
C28_Witness ==
  /\ scene.phase = "Scoring"
  /\ scene.coverage = [width |-> 20, height |-> 20]
  /\ TargetRects(scene.mask) = << [x |-> 5, y |-> 5, width |-> 35, height |-> 35] >>
  /\ <<8, 4>> \in scene.raster
  /\ FalsePositive >= 1

(* ---------------------------- the round ends -------------------------- *)
\* Game.loop ends with requestAnimationFrame(this.loop): a frame follows
\* every frame, so a frame that changes the state is not put off for ever.
SpecFramesFair == SpecFrames /\ WF_vars(\E dt \in FrameDts : Frame(dt))

\* C29: a round in Redacting whose update keeps being called with dt > 0
\* reaches Scoring, with no activation of done.
C29_RoundEnds ==
  (current = "game" /\ scene.phase = "Redacting") ~> (scene.phase = "Scoring")

\* the timer of the second round ran out: the round was finished once,
\* by update, with no stroke drawn
C29_Witness ==
  /\ current = "game"
  /\ scene.phase = "Scoring"
  /\ scene.timer = 0
  /\ scene.finishCalls = 1
  /\ Len(scene.scoreLog) = 2
  /\ scene.strokes = << >>

(* --------------------- computeLayout in double precision --------------- *)
\* f <= g for the fraction bits f and g
FracLe(f, g) ==
  LET differ == { k \in 1..Max(Len(f), Len(g)) : Bit(f, k) # Bit(g, k) }
  IN \/ differ = {}
     \/ Bit(f, CHOOSE k \in differ : \A j \in differ : k <= j) = 0

\* Math.min(a, b) for doubles a, b >= 0
MinDouble(a, b) ==
  IF a.ip < b.ip \/ (a.ip = b.ip /\ FracLe(a.frac, b.frac)) THEN a ELSE b

\* c - v for an integer c >= 0 and a double v >= 0, before rounding: the
\* sign and the magnitude ip.frac; 1 - 0.frac has the bits of frac before
\* its last 1 inverted
SubExact(c, v) ==
  IF v.frac = << >>
  THEN [neg |-> v.ip > c, ip |-> Abs(c - v.ip), frac |-> << >>]
  ELSE IF v.ip >= c
  THEN [neg |-> TRUE, ip |-> v.ip - c, frac |-> v.frac]
  ELSE [neg |-> FALSE, ip |-> c - v.ip - 1,
        frac |-> [k \in 1..Len(v.frac) |-> IF k < Len(v.frac) THEN 1 - v.frac[k] ELSE 1]]

\* (c - v) / 2 as a signed double: the difference rounded, then halved
HalfDifference(c, v) ==
  LET d == SubExact(c, v)
      r == RoundDouble(d.ip, d.frac, FALSE)
  IN [neg |-> d.neg,
      mag |-> [ip |-> r.ip \div 2, frac |-> Trim(<< r.ip % 2 >> \o r.frac)]]

\* computeLayout with Math.max in place of Math.min (a cover fit)
computeLayoutCover(size, img) ==
  LET byWidth == DivDouble(size[1], img.width)
      byHeight == DivDouble(size[2], img.height)
      scale == IF MinDouble(byWidth, byHeight) = byWidth THEN byHeight ELSE byWidth
      drawWidth == MulDouble(scale, img.width)
      drawHeight == MulDouble(scale, img.height)
  IN [scale |-> scale,
      offsetX |-> HalfDifference(size[1], drawWidth),
      offsetY |-> HalfDifference(size[2], drawHeight),
      drawWidth |-> drawWidth, drawHeight |-> drawHeight]

\* computeLayout on doubles, for a container rect and an image with
\* whole-pixel sizes
computeLayoutDouble(size, img) ==
  LET scale == MinDouble(DivDouble(size[1], img.width), DivDouble(size[2], img.height))
      drawWidth == MulDouble(scale, img.width)
      drawHeight == MulDouble(scale, img.height)
  IN [scale |-> scale,
      offsetX |-> HalfDifference(size[1], drawWidth),
      offsetY |-> HalfDifference(size[2], drawHeight),
      drawWidth |-> drawWidth, drawHeight |-> drawHeight]

(***************************************************************************)
(* The layout of one document image.  Here scene holds the image and the   *)
(* layout computeLayout gave it, win is the size of the container rect;    *)
(* the image's onload and every resize of the window compute the layout.   *)
(***************************************************************************)
ContainerSizes == { 600, 800, 1366 } \X { 500, 600, 768 }

ImageSizes == { [width |-> w, height |-> h] : w \in { 50, 612, 850 }, h \in { 50, 792, 1100 } }

InitLayout ==
  /\ \E img \in ImageSizes : scene = [docImage |-> img, layout |-> NoOne]
  /\ win \in ContainerSizes
  /\ current = "game"
  /\ onExitCalls = 0
  /\ resizes = 0

\* docImage.onload: computeLayout()
LayoutOnLoad ==
  /\ scene.layout = NoOne
  /\ scene' = [scene EXCEPT !.layout = computeLayoutDouble(win, scene.docImage)]
  /\ UNCHANGED << current, win, onExitCalls, resizes >>

\* window resize -> onResize: computeLayout() once the image is loaded
LayoutOnResize(size) ==
  /\ size # win
  /\ win' = size
  /\ scene' = IF scene.layout = NoOne THEN scene
              ELSE [scene EXCEPT !.layout = computeLayoutDouble(size, scene.docImage)]
  /\ UNCHANGED << current, onExitCalls, resizes >>

NextLayout ==
  \/ LayoutOnLoad
  \/ \E size \in ContainerSizes : LayoutOnResize(size)

SpecLayout == InitLayout /\ [][NextLayout]_vars

\* the contain fit over the rationals: the draw sizes as fractions num / den
\* and twice the offsets as fractions over the same denominators
ContainFit(size, img) ==
  LET cw == size[1]
      ch == size[2]
      byWidth == cw * img.height <= ch * img.width   \* cw / iw <= ch / ih
  IN [drawWidth |-> IF byWidth THEN [num |-> cw, den |-> 1]
                               ELSE [num |-> img.width * ch, den |-> img.height],
      drawHeight |-> IF byWidth THEN [num |-> img.height * cw, den |-> img.width]
                                ELSE [num |-> ch, den |-> 1]]

\* |v * m - n| < 2 ^ -(ToleranceBits - BitLen(m)) for a double v >= 0, so
\* that v is within 2 ^ -(ToleranceBits - 1) of n / m
NearRatio(v, n, m) ==
  LET p == MulBits(v.frac, m)
      ip == v.ip * m + p.carry
      bits == ToleranceBits - BitLen(m)
  IN \/ ip = n /\ \A k \in 1..Len(p.bits) : p.bits[k] = 0
     \/ ip = n /\ LeadingZeros(p.bits) >= bits
     \/ ip = n - 1 /\ LeadingOnes(p.bits) >= bits

\* the signed double o is within tolerance of n / m >= 0
NearOffset(o, n, m) ==
  IF o.neg THEN n = 0 /\ NearRatio(o.mag, 0, 1)
  ELSE NearRatio(o.mag, n, m)

\* the double v is at most the integer n; the signed double o is zero
AtMost(v, n) == v.ip < n \/ v = Exact(n)

IsZero(o) == o.mag = Exact(0)

\* twice the signed double o is exactly c - v
IsHalfDifference(o, c, v) ==
  LET d == SubExact(c, v)
  IN /\ o.neg = d.neg
     /\ [ip |-> 2 * o.mag.ip + Bit(o.mag.frac, 1),
         frac |-> SubSeq(o.mag.frac, 2, Len(o.mag.frac))] = [ip |-> d.ip, frac |-> Trim(d.frac)]

\* C30 as stated: drawWidth <= containerWidth, drawHeight <=
\* containerHeight, no offset is negative, one of them is 0, and each offset
\* is half of what the drawn image leaves of the container.
C30_ContainFitExact ==
  scene.layout # NoOne =>
    /\ AtMost(scene.layout.drawWidth, win[1])
    /\ AtMost(scene.layout.drawHeight, win[2])
    /\ ~scene.layout.offsetX.neg \/ IsZero(scene.layout.offsetX)
    /\ ~scene.layout.offsetY.neg \/ IsZero(scene.layout.offsetY)
    /\ IsZero(scene.layout.offsetX) \/ IsZero(scene.layout.offsetY)
    /\ IsHalfDifference(scene.layout.offsetX, win[1], scene.layout.drawWidth)
    /\ IsHalfDifference(scene.layout.offsetY, win[2], scene.layout.drawHeight)

\* C30: within floating-point tolerance (2 ^ -(ToleranceBits - 1)) the
\* layout is the centered contain fit: drawWidth and drawHeight are the
\* image's sizes times min(cw / iw, ch / ih), so neither exceeds the
\* container's by more than the tolerance, each offset is half of what the
\* drawn image leaves of the container, no offset is below zero by more
\* than the tolerance and one of them is within the tolerance of 0.
C30_ContainFit ==
  scene.layout # NoOne =>
    LET fit == ContainFit(win, scene.docImage)
        l == scene.layout
    IN /\ NearRatio(l.drawWidth, fit.drawWidth.num, fit.drawWidth.den)
       /\ NearRatio(l.drawHeight, fit.drawHeight.num, fit.drawHeight.den)
       /\ NearOffset(l.offsetX, win[1] * fit.drawWidth.den - fit.drawWidth.num,
                     2 * fit.drawWidth.den)
       /\ NearOffset(l.offsetY, win[2] * fit.drawHeight.den - fit.drawHeight.num,
                     2 * fit.drawHeight.den)
       /\ l.drawWidth.ip <= win[1] /\ l.drawHeight.ip <= win[2]
       /\ NearRatio(l.offsetX.mag, 0, 1) \/ NearRatio(l.offsetY.mag, 0, 1)
       /\ l.offsetX.neg => NearRatio(l.offsetX.mag, 0, 1)
       /\ l.offsetY.neg => NearRatio(l.offsetY.mag, 0, 1)

\* a letter-sized image (850 x 1100) is fitted by height into a 1366 x 768
\* container after a resize: drawHeight is 768.0000000000001 and offsetY is
\* below zero
C30_Witness ==
  /\ scene.layout # NoOne
  /\ win = <<1366, 768>>
  /\ scene.docImage = [width |-> 850, height |-> 1100]
  /\ scene.layout.drawHeight.ip = 768 /\ scene.layout.drawHeight.frac # << >>
  /\ scene.layout.offsetY.neg
  /\ ~scene.layout.offsetX.neg /\ scene.layout.offsetX.mag.ip > 0

(***************************************************************************)
(* The TargetRectEditor.  Here scene holds the editor's fields, win is the *)
(* size of its canvas.  press, last and moved are history fields: the      *)
(* point of the latest mousedown, the point of the latest mousemove and    *)
(* whether a mousemove came after the latest mousedown; exported is the    *)
(* list saveRects wrote last.                                              *)
(***************************************************************************)
MaxRects == 1          \* rects the editor stores in one run

EditorImage == [width |-> 50, height |-> 50]

EditorPoints == { [x |-> 30, y |-> 30], [x |-> 300, y |-> 100], [x |-> 150, y |-> 300] }

saveButton == [x |-> 20, y |-> 20, width |-> 100, height |-> 40, text |-> "Save JSON"]

\* screenToNormalized: (p.x - offsetX) / drawWidth, (p.y - offsetY) /
\* drawHeight, kept as fractions num / den
screenToNormalized(layout, p) ==
  [x |-> [num |-> p.x - layout.offsetX, den |-> layout.drawWidth],
   y |-> [num |-> p.y - layout.offsetY, den |-> layout.drawHeight]]

\* TargetRectEditor.onPointerDown: a press on the save button calls
\* saveRects and returns
editorOnPointerDown(e, p) ==
  LET h == [e EXCEPT !.press = p, !.moved = FALSE]
  IN IF pointInRect(p, saveButton) THEN [h EXCEPT !.exported = e.rects]
     ELSE IF ~e.imageLoaded THEN h
     ELSE [h EXCEPT !.isDrawing = TRUE, !.startPoint = p]

\* TargetRectEditor.onPointerMove: both points are divided by the same
\* drawWidth and drawHeight, so Math.min and Math.abs of the quotients are
\* those of the numerators
editorOnPointerMove(e, p) ==
  LET h == [e EXCEPT !.last = p, !.moved = TRUE]
  IN IF ~e.isDrawing \/ e.startPoint = NoOne THEN h
     ELSE LET start == screenToNormalized(e.layout, e.startPoint)
              end == screenToNormalized(e.layout, p)
          IN [h EXCEPT !.currentRect =
                [x |-> [num |-> Min(start.x.num, end.x.num), den |-> start.x.den],
                 y |-> [num |-> Min(start.y.num, end.y.num), den |-> start.y.den],
                 width |-> [num |-> Abs(end.x.num - start.x.num), den |-> start.x.den],
                 height |-> [num |-> Abs(end.y.num - start.y.num), den |-> start.y.den]]]

\* TargetRectEditor.onPointerUp
editorOnPointerUp(e) ==
  [e EXCEPT !.rects = IF e.currentRect # NoOne THEN Append(@, e.currentRect) ELSE @,
            !.isDrawing = FALSE,
            !.startPoint = NoOne,
            !.currentRect = NoOne]

\* new TargetRectEditor(canvasId, imageSrc): the image is loading, onResize
\* has sized the canvas
InitEditor ==
  /\ scene = [imageLoaded |-> FALSE,
              layout |-> [offsetX |-> 0, offsetY |-> 0, drawWidth |-> 0, drawHeight |-> 0],
              rects |-> << >>,
              isDrawing |-> FALSE,
              startPoint |-> NoOne,
              currentRect |-> NoOne,
              press |-> NoOne,
              last |-> NoOne,
              moved |-> FALSE,
              exported |-> << >>]
  /\ win \in Sizes
  /\ current = "none"
  /\ onExitCalls = 0
  /\ resizes = 0

\* image.onload
EditorImageLoaded ==
  /\ ~scene.imageLoaded
  /\ scene' = [scene EXCEPT !.imageLoaded = TRUE,
                            !.layout = computeLayout(win, EditorImage)]
  /\ UNCHANGED << current, win, onExitCalls, resizes >>

\* window resize -> onResize
EditorResize(size) ==
  /\ size # win
  /\ win' = size
  /\ scene' = IF scene.imageLoaded
              THEN [scene EXCEPT !.layout = computeLayout(size, EditorImage)]
              ELSE scene
  /\ UNCHANGED << current, onExitCalls, resizes >>

\* mousedown on the canvas
EditorDown(p) ==
  /\ scene' = editorOnPointerDown(scene, p)
  /\ UNCHANGED << current, win, onExitCalls, resizes >>

\* mousemove on the canvas
EditorMove(p) ==
  /\ scene' = editorOnPointerMove(scene, p)
  /\ UNCHANGED << current, win, onExitCalls, resizes >>

\* mouseup on the canvas (a button released outside the canvas raises none)
EditorUp ==
  /\ Len(scene.rects) < MaxRects \/ scene.currentRect = NoOne
  /\ scene' = editorOnPointerUp(scene)
  /\ UNCHANGED << current, win, onExitCalls, resizes >>

NextEditor ==
  \/ EditorImageLoaded
  \/ \E size \in Sizes : EditorResize(size)
  \/ \E p \in EditorPoints : EditorDown(p)
  \/ \E p \in EditorPoints : EditorMove(p)
  \/ EditorUp

SpecEditor == InitEditor /\ [][NextEditor]_vars

\* C31: every stored rect has width >= 0 and height >= 0; the rect of a
\* drag has as x and y the minima of the coordinates of the press and of
\* the pointer-move, a release stores that rect and no other, and a release
\* that no pointer-move came before since the press stores no rect.
C31_StoredRects ==
  /\ [](\A k \in 1..Len(scene.rects) :
          scene.rects[k].width.num >= 0 /\ scene.rects[k].height.num >= 0)
  /\ [][ \A p \in EditorPoints :
           EditorMove(p) /\ scene'.currentRect # NoOne =>
             LET start == screenToNormalized(scene.layout, scene.press)
                 end == screenToNormalized(scene.layout, p)
                 r == scene'.currentRect
             IN /\ r.x = [num |-> Min(start.x.num, end.x.num), den |-> start.x.den]
                /\ r.y = [num |-> Min(start.y.num, end.y.num), den |-> start.y.den] ]_vars
  /\ [][ EditorUp =>
           /\ ~scene.moved => scene'.rects = scene.rects
           /\ scene'.rects # scene.rects =>
                scene'.rects = Append(scene.rects, scene.currentRect) ]_vars

\* a rect was stored by the release that followed a press on the save
\* button with no pointer-move in between: the list saved by that press was
\* still empty
C31_Witness ==
  /\ scene.rects # << >>
  /\ scene.exported = << >>
  /\ scene.press # NoOne /\ pointInRect(scene.press, saveButton)
  /\ ~scene.moved
  /\ ~scene.isDrawing /\ scene.currentRect = NoOne

(* ---------------------- raster and stroke list ------------------------- *)
\* C32: in every state the painted cells of the coverage raster are exactly
\* the cells the marker discs of the points in the stroke list cover.
C32_RasterIsStrokes ==
  scene.raster = PaintedBy(scene.strokes, scene.coverage.width, scene.coverage.height)

\* the image of the mask of the round under way finished loading after a
\* stroke point was drawn: the stroke list holds the point and the raster
\* it was painted on is clear
C32_Witness ==
  /\ current = "game"
  /\ scene.phase = "Redacting"
  /\ scene.strokes # << >>
  /\ scene.raster = {}
  /\ PaintedBy(scene.strokes, scene.coverage.width, scene.coverage.height) # {}
  /\ scene.loaded = scene.mask /\ scene.pendingSrc = 0

(* --------------------------- the drawing flag -------------------------- *)
\* C33: a pointer-move appends a stroke point only in Redacting with the
\* drawing flag set; the flag is set only by a pointer-down in Redacting
\* that lands inside the document, a pointer-up clears it, and it is clear
\* when a Redacting phase begins, so it never carries over from one round
\* into the next.
C33_NoCarryOver ==
  /\ [][ (\E p \in Points : PointerMove(p)) /\ scene'.strokes # scene.strokes =>
           current = "game" /\ scene.phase = "Redacting" /\ scene.isDrawing ]_vars
  /\ [][ ~scene.isDrawing /\ scene'.isDrawing =>
           \E p \in Points : /\ PointerDown(p)
                             /\ current = "game" /\ scene.phase = "Redacting"
                             /\ ~OutsideDocument(p) ]_vars
  /\ [][ PointerUp /\ current = "game" => ~scene'.isDrawing ]_vars
  /\ [][ scene.phase # "Redacting" /\ scene'.phase = "Redacting" => ~scene'.isDrawing ]_vars

\* a round is under way with the drawing flag set and no stroke point yet:
\* the flag was set in an earlier round and no pointer-up came since
C33_Witness ==
  /\ current = "game"
  /\ scene.phase = "Redacting"
  /\ scene.isDrawing
  /\ scene.strokes = << >>
  /\ Len(scene.scoreLog) >= 1

(* ------------------------------ scene changes ------------------------- *)
\* a pointer-down at p makes a handler call SceneManager.set
SetCalled(p) ==
  /\ PointerDown(p)
  /\ current = "menu" \/ ExitActivated(p)

\* C34: a call of SceneManager.set runs the onExit hook of the outgoing
\* scene at most once (the menu scene has none; on exit the hook runs once
\* more, called by exitGame itself), every call of set returns normally, and
\* afterwards the scene passed in is current; while the menu scene is
\* current, frames and pointer-moves and pointer-ups leave the GameScene as
\* it is.
C34_SetSwitchesOnce ==
  /\ [][ \A p \in Points : SetCalled(p) =>
           LET w == SceneManagerOnPointerDown(World(scene, current), p)
           IN /\ onExitCalls' <= (IF current = "game" THEN 2 ELSE 0)
              /\ w.rejections = 0
              /\ current' = (IF current = "game" THEN "menu" ELSE "game") ]_vars
  /\ [][ current = "menu" /\ (Tick \/ PointerUp \/ \E p \in Points : PointerMove(p)) =>
           scene' = scene ]_vars

\* exit was activated and the menu scene is current: the hook ran more
\* often than the two calls of exitGame and of set
C34_Witness ==
  /\ current = "menu"
  /\ onExitCalls > 2
  /\ scene.phase = "Prompt" /\ scene.totalScore = 0 /\ scene.strokes = << >>

(* ------------------------------ mask catalog -------------------------- *)
\* C35: after the constructor and after every continue, exit and resetGame,
\* currentMaskIndex lies in 1..N for the catalog length N and the current
\* mask is the catalog entry at that position (masks[currentMaskIndex - 1]
\* of the zero-based array), so that every lookup read inside the array.
C35_IndexInCatalog ==
  /\ scene.currentMaskIndex \in 1..Len(scene.masks)
  /\ scene.mask = scene.masks[scene.currentMaskIndex]

\* continue was pressed on the last mask of the catalog: the index wrapped
\* and the first entry is loading
C35_Witness ==
  /\ current = "game"
  /\ Len(scene.scoreLog) = Len(scene.masks)
  /\ scene.currentMaskIndex = 1
  /\ scene.mask = scene.masks[1] /\ scene.pendingSrc = scene.mask

(* ------------------------------ window resize ------------------------- *)
\* C36: a window resize delivered to the GameScene changes no field of it
\* other than the layout and the needs-redraw flag (phase, timer, scores,
\* mask index, strokes and coverage raster stay; the bitmaps of the three
\* layers are reset by main's resize itself), and it changes neither of
\* the two while no image has loaded.
C36_ResizeFrame ==
  [][ \A size \in Sizes : Resize(size) /\ current = "game" =>
        /\ [scene' EXCEPT !.layout = scene.layout,
                          !.needsRedraw = scene.needsRedraw,
                          !.layers = scene.layers] = scene
        /\ ~scene.imageLoaded =>
              scene'.layout = scene.layout /\ scene'.needsRedraw = scene.needsRedraw ]_vars

\* the window was resized in the middle of a round with strokes drawn and
\* no frame has run since
C36_Witness ==
  /\ current = "game" /\ resizes > 0
  /\ scene.phase = "Redacting"
  /\ scene.strokes # << >> /\ scene.raster # {}
  /\ scene.layout = computeLayout(win, scene.docImage)
  /\ scene.layout # computeLayout(<<600, 500>>, scene.docImage)
  /\ scene.needsRedraw
  /\ scene.layers = ClearedLayers

====
